---- MODULE Spec2Model ----
(***************************************************************************)
(* The OpenCode adapter of opendian: OpencodeServiceWrapper (the Backend   *)
(* Adapter) over one OpencodeService (the Backend Client) talking to one   *)
(* remote OpenCode server.                                                 *)
(*                                                                         *)
(* Scheduling: JavaScript's single-threaded cooperative concurrency.  A    *)
(* step of the model is one run of synchronous code from one suspension    *)
(* point to the next.  The suspension points are the remote round trips    *)
(* (the awaits on the SDK client's calls), the awaits of the client's own  *)
(* async methods by the wrapper and by getModels, and the yields of the    *)
(* two async generators, which wait for the consumer's next() or           *)
(* return().  The continuations that follow one answer of the server (the  *)
(* client's, then the wrapper's, then the query's) are steps of their own, *)
(* taken in the order of the job queue, and a call of the adapter's user   *)
(* or another answer of the server can come between them.                  *)
(*                                                                         *)
(* Beside the adapter the module holds the OpencodeServerManager, which    *)
(* starts and stops the server's process (SpecManager, SpecManagerLive),   *)
(* and mergeEnvironmentVariables of the settings migration (SpecMerge).    *)
(***************************************************************************)
EXTENDS Integers, Sequences, FiniteSets, TLC

\* ----------------------------------------------------------------- bounds
MaxQueries == 2
MaxSessions == 2
MaxParts == 2
MaxCalls == 2
MaxInstances == 3
MaxIdLen == 2
MaxStarts == 2
MaxWait == 2
MaxLines == 2

Queries == 1..MaxQueries
SessionIds == 1..MaxSessions
Calls == 1..MaxCalls

\* ------------------------------------------------------------- JS values
\* null, as the value of a session id or of the abortController field
NoSession == 0
\* undefined, as the value of a string field
Undef == "undefined"
\* a string in a condition: undefined and '' are falsy
Truthy(s) == s # Undef /\ s # ""
\* a ?? b on strings
Coalesce(a, b) == IF a = Undef THEN b ELSE a

\* ------------------------------------------------------------- the state
VARIABLES
  client,             \* OpencodeService.client: "null" or "client"
  currentSessionId,   \* OpencodeService.currentSessionId
  abortController,    \* OpencodeService.abortController: 0 (null) or the query whose token it holds
  cachedProviders,    \* OpencodeService.cachedProviders: <<>> (null) or <<list>>
  cachedModels,       \* OpencodeService.cachedModels: <<>> (null) or <<list>>
  wrapperSessionId,   \* OpencodeServiceWrapper.currentSessionId
  signaled,           \* the AbortControllers whose signal is aborted, named by their query
  queries,            \* the query() generators, one record per call
  pendingCreate,      \* a direct createSession() call is awaiting session.create
  pendingDelete,      \* the id whose deleteSession(id) call is awaiting session.delete, or 0
  remoteSessions,     \* the sessions the server holds
  nextSessionId,      \* the id the server gives the next session it creates
  abortRequests,      \* the sessions the server was sent session.abort for
  backendProviders,   \* the provider list the server would answer config.providers with
  calls,              \* the getProviders()/getModels() calls, one record per call
  cleared,            \* clearCache() ran and no getModels() call was made since
  approvalCallback,   \* OpencodeServiceWrapper.approvalCallback: "null" or "callback"
  pendingCall,        \* the read-only client call (healthCheck, getSession, ...) in flight, or "none"
  observing,          \* the caller keeps what its direct calls return (fixed by the initial state)
  last,               \* the last direct call that returned and its result, when observing
  factory,            \* AgentServiceFactory: its static service field and the instances it made
  key,                \* a model option of query() and what OpencodeService.query makes of it
  createResult,       \* <<id>> once the client's createSession returned id (0 for null) to the wrapper's await
  direct,             \* the createSession/deleteSession calls made on the OpencodeService itself, in flight
  jobs,               \* the continuations whose awaited promise has settled, in the order they run
  deleteResult,       \* what OpencodeService.deleteSession returned to the wrapper's pending await, or "none"
  abortReplies,       \* how the server answered the last session.abort sent for each session
  pair,               \* two adapters made by AgentServiceFactory.create, each with its client
  probe,              \* a raw chunk given to convertChunk and the chunk it returned
  manager,            \* an OpencodeServerManager, its start() calls and the processes it spawned
  env                 \* two environment strings given to mergeEnvironmentVariables and its results

serviceVars == <<client, currentSessionId, abortController, cachedProviders, cachedModels>>
backendVars == <<remoteSessions, nextSessionId, abortRequests, abortReplies, backendProviders>>
vars == <<client, currentSessionId, abortController, cachedProviders, cachedModels,
          wrapperSessionId, signaled, queries, pendingCreate, pendingDelete, deleteResult,
          createResult, direct, jobs, remoteSessions, nextSessionId, abortRequests, abortReplies,
          backendProviders, calls, cleared, approvalCallback, pendingCall, observing, last,
          factory, key, pair, probe, manager, env>>
\* one adapter: the wrapper, its client and the server they talk to
adapterVars == <<client, currentSessionId, abortController, cachedProviders, cachedModels,
                 wrapperSessionId, signaled, queries, pendingCreate, pendingDelete, deleteResult,
                 createResult, direct, jobs, remoteSessions, nextSessionId, abortRequests,
                 abortReplies, backendProviders, calls, cleared, approvalCallback, pendingCall,
                 observing, last>>
\* what the session, stream and cache operations leave alone
callerVars == <<pendingCall, observing, last>>
extraVars == <<approvalCallback, pendingCall, observing, last, factory, key, pair,
               probe, manager, env>>

\* ------------------------------------------------------- chunks and parts
\* a chunk OpencodeService.query yields (OpencodeStreamChunk)
RawChunk(t, c) == [type |-> t, content |-> c, error |-> Undef, result |-> Undef,
                   sessionId |-> Undef]
\* a chunk OpencodeServiceWrapper.query yields (StreamChunk)
Chunk(t, c) == [type |-> t, content |-> c]

Part(t, x) == [type |-> t, text |-> x]
\* a null entry of response.parts
NullPart == Part("null", Undef)
PartKinds == { Part("reasoning", "t1"), Part("text", "answer"),
               Part("reasoning", ""), Part("text", Undef),
               Part("step-start", "x"), NullPart }

RECURSIVE SeqsUpTo(_, _)
SeqsUpTo(S, n) ==
  IF n = 0 THEN { <<>> }
  ELSE LET shorter == SeqsUpTo(S, n - 1)
       IN shorter \cup { Append(s, x) : s \in { t \in shorter : Len(t) = n - 1 }, x \in S }

\* what session.prompt can answer: it rejects with a thrown value, or resolves
\* with data that is undefined, that has no parts array, or that has parts
Thrown(isErr, m) == [isError |-> isErr, message |-> m]
Response(k, t, ps) == [kind |-> k, thrown |-> t, parts |-> ps]
NoThrown == Thrown(FALSE, Undef)
Rejections == { Response("reject", Thrown(TRUE, "fetch failed"), <<>>),
                Response("reject", Thrown(FALSE, Undef), <<>>) }
Malformed == { Response("nodata", NoThrown, <<>>), Response("noparts", NoThrown, <<>>) }
AllResponses == Rejections \cup Malformed
                \cup { Response("ok", NoThrown, ps) : ps \in SeqsUpTo(PartKinds, MaxParts) }
BasicResponses == { Response("reject", Thrown(TRUE, "fetch failed"), <<>>),
                    Response("ok", NoThrown, <<Part("reasoning", "t1"), Part("text", "answer")>>),
                    Response("ok", NoThrown, <<>>) }
NoResponse == Response("none", NoThrown, <<>>)

\* the TypeError of reading a property of undefined or null
TypeErrorOf(what) == Thrown(TRUE, "Cannot read properties of " \o what)

\* line 330: error instanceof Error ? error.message : 'Unknown error'
CatchMessage(err) == IF err.isError THEN err.message ELSE "Unknown error"

NoChunk == RawChunk("none", Undef)

\* lines 316-324 without the && partText of line 322
PartChunkAnyText(part) ==
  IF part.type = "reasoning" /\ Truthy(part.text) THEN RawChunk("thinking", part.text)
  ELSE IF part.type = "text" THEN RawChunk("text", part.text)
  ELSE NoChunk

\* lines 316-324: the chunk one part yields, or none
PartChunk(part) ==
  IF part.type = "reasoning" /\ Truthy(part.text) THEN RawChunk("thinking", part.text)
  ELSE IF part.type = "text" /\ Truthy(part.text) THEN RawChunk("text", part.text)
  ELSE NoChunk

\* lines 310-328 resumed at index i (1-based): the loop runs to its next yield,
\* to a throw (part.type of a null part) or to its end
RECURSIVE Scan(_, _)
Scan(parts, i) ==
  IF i > Len(parts) THEN [kind |-> "end", idx |-> i, chunk |-> NoChunk]
  ELSE IF parts[i] = NullPart
    THEN [kind |-> "throw", idx |-> i, chunk |-> NoChunk]
  ELSE IF PartChunk(parts[i]) # NoChunk
    THEN [kind |-> "yield", idx |-> i, chunk |-> PartChunk(parts[i])]
  ELSE Scan(parts, i + 1)

\* convertChunk without its case 'done': the chunk falls to the default
convertChunkNoDone(chunk) ==
  CASE chunk.type = "text" -> Chunk("text", Coalesce(chunk.content, ""))
    [] chunk.type \in {"thinking", "reasoning"} -> Chunk("thinking", Coalesce(chunk.content, ""))
    [] chunk.type = "error" -> Chunk("error", Coalesce(chunk.error, "Unknown error"))
    [] OTHER -> Chunk("text", "")

\* convertChunk whose 'error' case is missing, so that errors take the default
convertChunkErrorAsDefault(chunk) ==
  CASE chunk.type = "text" -> Chunk("text", Coalesce(chunk.content, ""))
    [] chunk.type \in {"thinking", "reasoning"} -> Chunk("thinking", Coalesce(chunk.content, ""))
    [] chunk.type = "tool_use" -> Chunk("tool_use", Undef)
    [] chunk.type = "tool_result" -> Chunk("tool_result", Coalesce(chunk.result, ""))
    [] chunk.type = "usage" -> Chunk("usage", Undef)
    [] chunk.type = "session" -> Chunk("text", "[Session: " \o chunk.sessionId \o "]")
    [] chunk.type = "done" -> Chunk("done", Undef)
    [] OTHER -> Chunk("text", "")

\* OpencodeServiceWrapper.convertChunk
convertChunk(chunk) ==
  CASE chunk.type = "text" -> Chunk("text", Coalesce(chunk.content, ""))
    [] chunk.type \in {"thinking", "reasoning"} -> Chunk("thinking", Coalesce(chunk.content, ""))
    [] chunk.type = "tool_use" -> Chunk("tool_use", Undef)
    [] chunk.type = "tool_result" -> Chunk("tool_result", Coalesce(chunk.result, ""))
    [] chunk.type = "error" -> Chunk("error", Coalesce(chunk.error, "Unknown error"))
    [] chunk.type = "usage" -> Chunk("usage", Undef)
    [] chunk.type = "session" -> Chunk("text", "[Session: " \o chunk.sessionId \o "]")
    [] chunk.type = "done" -> Chunk("done", Undef)
    [] OTHER -> Chunk("text", "")

\* ------------------------------------------------- capability metadata
\* an OpencodeProvider: its id and its models in Object.entries order; a model's
\* capabilities.reasoning and reasoning are "true", "false" or undefined
Model(id, cap, top) == [modelId |-> id, capabilities |-> cap, reasoning |-> top]
Provider(id, ms) == [id |-> id, models |-> ms]
ProviderLists ==
  { <<>>,
    << Provider("anthropic", << Model("sonnet", "true", Undef) >>) >>,
    << Provider("anthropic", << Model("sonnet", "false", "true"), Model("haiku", Undef, "true") >>),
       Provider("openai", << Model("gpt", Undef, Undef) >>) >>,
    << Provider("local", <<>>),
       Provider("openai", << Model("gpt", Undef, "false"), Model("o1", "true", "false") >>) >> }

InitialProviders == << Provider("anthropic", << Model("sonnet", "true", Undef) >>) >>

\* line 135 reading only the top-level reasoning field
ModelEntryTopLevel(provider, model) ==
  [value |-> provider.id \o ":" \o model.modelId,
   provider |-> provider.id,
   modelId |-> model.modelId,
   reasoning |-> Coalesce(model.reasoning, "false")]

\* service lines 135-144: one entry of the model list
ModelEntry(provider, model) ==
  [value |-> provider.id \o ":" \o model.modelId,
   provider |-> provider.id,
   modelId |-> model.modelId,
   reasoning |-> Coalesce(Coalesce(model.capabilities, model.reasoning), "false")]

\* service lines 129-151: the nested loops of getModels
RECURSIVE FlattenModels(_, _)
FlattenModels(provider, ms) ==
  IF ms = <<>> THEN <<>>
  ELSE <<ModelEntry(provider, Head(ms))>> \o FlattenModels(provider, Tail(ms))
RECURSIVE Flatten(_)
Flatten(providers) ==
  IF providers = <<>> THEN <<>>
  ELSE FlattenModels(Head(providers), Head(providers).models) \o Flatten(Tail(providers))

\* a getProviders() or getModels() call of OpencodeService
\*   pc "idle" not made, "fetching" awaiting config.providers (line 111), "flatten"
\*   getModels awaiting the providers its getProviders() call returned in ret
\*   (line 128), "done" returned
\* got: how the getProviders() call of a getModels() waiting at line 128 came by
\*   its list: "cached" (line 97), "notReady" (line 101), "fetched" (line 113) or
\*   "rejected" (line 116)
NewCall == [pc |-> "idle", kind |-> "none", ret |-> <<>>, got |-> "none"]
Returned(k, list) == [pc |-> "done", kind |-> k, ret |-> list, got |-> "none"]
Fetching(k) == [pc |-> "fetching", kind |-> k, ret |-> <<>>, got |-> "none"]
Flattening(providers, how) ==
  [pc |-> "flatten", kind |-> "models", ret |-> providers, got |-> how]
InFlight == {"fetching", "flatten"}

cacheVars == <<cachedProviders, cachedModels, backendProviders, calls, cleared>>

\* the continuation of an await whose promise has settled: op "createReturn" and
\* "deleteReturn" (wrapper lines 64 and 254), "bind" and "continue" of query n
\* (wrapper lines 64 and 97), "models" of call n (service line 129)
Job(op, n) == [op |-> op, n |-> n]
\* the job the event loop runs next
Runs(op, n) == jobs # <<>> /\ Head(jobs) = Job(op, n)

\* ----------------------------------------------------- the query generators
\* pc: where the call is suspended
\*   "new"       query() not called yet
\*   "creating"  wrapper line 96, session.create in flight (the lazy createSession)
\*   "created"   OpencodeService.createSession has returned to the wrapper's await (line 62)
\*   "bound"     the wrapper's createSession has returned to query's await (line 96)
\*   "failed"    wrapper line 98, at the yield of the session-creation error
\*   "early"     service lines 257/264, at the yield of an error before the try
\*   "prompting" service line 293, session.prompt in flight
\*   "part"      service lines 318/323, at the yield of the chunk of part idx
\*   "doneYield" service line 328, at the yield of the done chunk
\*   "errYield"  service line 331, at the yield of the caught error
\*   "drained"   the consumer's next() got done: true
\*   "stopped"   the consumer called return() before that
\* viaWrapper: the call is OpencodeServiceWrapper.query (FALSE: it is
\* OpencodeService.query, called on the client itself);
\* invoked: OpencodeService.query was called, with options.sessionId = opt;
\* sid: the sessionId of service line 261; lazy: what the lazy createSession() of
\* wrapper line 96 returned ("no" call, "ok" the id in created, "failed" null);
\* resp: what session.prompt answered; raw: the chunks the service yielded;
\* stream: the chunks the consumer got; abortSeen: abort() ran while the call was
\* awaiting its session ("create") or its prompt or delivering parts ("stream")
NewQuery == [pc |-> "new", viaWrapper |-> TRUE, invoked |-> FALSE, opt |-> NoSession,
             sid |-> NoSession, lazy |-> "no", created |-> NoSession, resp |-> NoResponse,
             idx |-> 0, raw |-> <<>>, stream |-> <<>>, abortSeen |-> "no"]

AtYield == {"failed", "early", "part", "doneYield", "errYield"}
\* suspended inside the try ... catch ... finally of OpencodeService.query
InTry == {"prompting", "part", "doneYield", "errYield"}
\* inside the wrapper's await of createSession(): session.create is in flight
\* ("creating"), has answered ("created"), the wrapper has bound the id ("bound")
AwaitingSession == {"creating", "created", "bound"}
\* started, and its terminal chunk not delivered yet
Outstanding == AwaitingSession \cup {"prompting", "part"}
Closed == {"drained", "stopped"}

\* the service yields chunk; the wrapper converts it and yields it to the consumer
\* (wrapper line 109); the consumer of OpencodeService.query gets it as it is
Emit(qr, chunk, pc) ==
  [qr EXCEPT !.raw = Append(@, chunk),
             !.stream = Append(@, IF qr.viaWrapper THEN convertChunk(chunk) ELSE chunk),
             !.pc = pc]

\* line 98 reporting the failure the way the catch of line 112 does
LazyFailedUnknown(qr) ==
  [qr EXCEPT !.stream = Append(@, Chunk("error", "Unknown error")), !.pc = "failed"]

\* wrapper line 98
LazyFailed(qr) ==
  [qr EXCEPT !.stream = Append(@, Chunk("error", "Failed to create OpenCode session")),
             !.pc = "failed"]

\* line 97 without its check
QueryNeverShortCircuits(sessionId) == FALSE

\* wrapper line 97: if (!sessionId)
QueryShortCircuits(sessionId) == sessionId = NoSession

\* line 261 with the operands of ?? exchanged: the bound session wins
ResolveSessionIdBound(optSid, curSid) == IF curSid # NoSession THEN curSid ELSE optSid

\* service line 261: options?.sessionId ?? this.currentSessionId
ResolveSessionId(optSid, curSid) == IF optSid # NoSession THEN optSid ELSE curSid

\* OpencodeService.query from its call (wrapper lines 104-108) to its first
\* suspension: the yield of an early error, or the prompt round trip
ServiceQuery(qr, cl, optSid, curSid) ==
  LET inv == [qr EXCEPT !.invoked = TRUE, !.opt = optSid]
      sid == ResolveSessionId(optSid, curSid)
  IN IF cl = "null"
       THEN Emit(inv, RawChunk("error", "OpenCode client not initialized"), "early")
     ELSE IF sid = NoSession
       THEN Emit([inv EXCEPT !.sid = sid], RawChunk("error", "No session ID provided"), "early")
     ELSE [inv EXCEPT !.sid = sid, !.pc = "prompting"]

\* wrapper lines 96-109 once createSession() has returned sessionId
AfterCreate(qr, sessionId, cl, wsid, csid) ==
  LET got == [qr EXCEPT !.lazy = IF sessionId = NoSession THEN "failed" ELSE "ok",
                        !.created = sessionId]
  IN IF QueryShortCircuits(sessionId) THEN LazyFailed(got)
     ELSE ServiceQuery(got, cl, wsid, csid)

\* service line 274: a query that reaches the prompt installs its own AbortController
ControllerAfter(qr, q) == IF qr.pc = "prompting" THEN q ELSE abortController

\* service lines 310-331 from part index i to the next yield
Continue(qr, i) ==
  LET s == Scan(qr.resp.parts, i)
  IN CASE s.kind = "yield" -> Emit([qr EXCEPT !.idx = s.idx], s.chunk, "part")
       [] s.kind = "throw" ->
            Emit(qr, RawChunk("error", CatchMessage(TypeErrorOf("null (reading 'type')"))), "errYield")
       [] OTHER -> Emit(qr, RawChunk("done", Undef), "doneYield")

\* service lines 302-331 once session.prompt has settled with resp
AfterPrompt(qr, resp) ==
  LET got == [qr EXCEPT !.resp = resp]
  IN CASE resp.kind = "reject" ->
            Emit(got, RawChunk("error", CatchMessage(resp.thrown)), "errYield")
       [] resp.kind = "nodata" ->
            Emit(got, RawChunk("error", CatchMessage(TypeErrorOf("undefined (reading 'parts')"))),
                 "errYield")
       [] resp.kind = "noparts" -> Emit(got, RawChunk("done", Undef), "doneYield")
       [] OTHER -> Continue(got, 1)

\* query without its finally block: the slot keeps the controller
FinallyControllerKept(pc) == abortController

\* service lines 332-334: the finally block
FinallyController(pc) == IF pc \in InTry THEN NoSession ELSE abortController

\* OpencodeService.abort as seen by the queries: it was called while they were outstanding
SawAbort(qr) ==
  IF qr.pc \in {"prompting", "part"} THEN [qr EXCEPT !.abortSeen = "stream"]
  ELSE IF qr.pc \in AwaitingSession /\ qr.abortSeen = "no" THEN [qr EXCEPT !.abortSeen = "create"]
  ELSE qr

\* service lines 375-377
SignaledAfterAbort == IF abortController # NoSession THEN signaled \cup {abortController} ELSE signaled
\* service lines 379 and 383: the session abort() names in its request, if it sends one
AbortTarget == IF currentSessionId # NoSession /\ client # "null" THEN currentSessionId
               ELSE NoSession

\* service lines 379-386
RequestsAfterAbort ==
  IF currentSessionId # NoSession /\ client # "null"
    THEN abortRequests \cup {currentSessionId} ELSE abortRequests

\* the request of lines 381-385 is sent and not yet answered
RepliesAfterAbort ==
  IF currentSessionId # NoSession /\ client # "null"
    THEN [abortReplies EXCEPT ![currentSessionId] = "none"] ELSE abortReplies

\* what a direct call gave its caller: val is "null", "true", "false", "[]" (an
\* empty list), "data" (what the server answered), "id" (the session id in id)
\* or "void"
Result(op, val, id) == [op |-> op, val |-> val, id |-> id]
NoCall == Result("none", Undef, NoSession)
Observe(result) == IF observing THEN result ELSE last

\* IAgentService.ts line 208: no service installed, no instance made yet
NewFactory == [service |-> 0, made |-> <<>>, cleaned |-> {},
               result |-> [kind |-> "none", backend |-> "none", instance |-> 0]]

\* no provider and model id chosen yet
NoKey == [pc |-> "none", providerId |-> "", modelId |-> "", entry |-> <<>>, body |-> <<>>]

\* no chunk converted yet
NoProbe == [pc |-> "none", raw |-> RawChunk("none", Undef), out |-> Chunk("none", Undef)]

\* the start() calls made on the server manager; each spawns at most one process
Starts == 1..MaxStarts
NoProcess == 0

\* a start() call not made yet
NewStart == [pc |-> "idle", polls |-> 0, result |-> "none", why |-> "none",
             wrote |-> FALSE, spawned |-> NoProcess]

\* no OpencodeServerManager constructed yet. process: the ChildProcess in
\* this.process; alive: the handles whose process runs; failed: the handles
\* whose process could not be started (they have no pid); reported: the
\* handles whose 'error' event was delivered; signalled: the processes stop()
\* sent SIGTERM; spawns: the handles spawn() has returned
NewManager == [given |-> "none", externalServer |-> Undef, process |-> NoProcess,
               alive |-> {}, failed |-> {}, reported |-> {}, signalled |-> {}, spawns |-> 0,
               starts |-> [s \in Starts |-> NewStart]]

\* no call made on the OpencodeService itself is in flight
NoDirect == [create |-> FALSE, delete |-> NoSession]

\* no environment strings merged yet
NoEnv == [pc |-> "none", existing |-> <<>>, additional |-> <<>>, merged |-> <<>>, again |-> <<>>]

\* an OpencodeService and an OpencodeServiceWrapper as the constructors leave them
NewService == [client |-> "null", currentSessionId |-> NoSession, abortController |-> FALSE,
               signaled |-> FALSE, cachedProviders |-> FALSE, cachedModels |-> FALSE]
NewWrapper == [currentSessionId |-> NoSession, streaming |-> FALSE]
\* no asynchronous call of an adapter is in flight
NoPairCall == [op |-> "none", pc |-> "idle", id |-> NoSession, ok |-> FALSE]
NewPair == [services |-> [i \in 1..2 |-> NewService], wrappers |-> [i \in 1..2 |-> NewWrapper],
            calls |-> [i \in 1..2 |-> NoPairCall]]

\* the adapter and its client after construction
Constructed ==
  /\ client = "null"
  /\ currentSessionId = NoSession
  /\ abortController = NoSession
  /\ cachedProviders = <<>>
  /\ cachedModels = <<>>
  /\ wrapperSessionId = NoSession
  /\ signaled = {}
  /\ queries = [q \in Queries |-> NewQuery]
  /\ pendingCreate = FALSE
  /\ pendingDelete = NoSession
  /\ remoteSessions = {}
  /\ nextSessionId = 1
  /\ abortRequests = {}
  /\ backendProviders = InitialProviders
  /\ calls = [c \in Calls |-> NewCall]
  /\ cleared = FALSE
  /\ approvalCallback = "null"
  /\ pendingCall = "none"
  /\ last = NoCall
  /\ factory = NewFactory
  /\ key = NoKey
  /\ deleteResult = "none"
  /\ createResult = <<>>
  /\ direct = NoDirect
  /\ jobs = <<>>
  /\ abortReplies = [id \in SessionIds |-> "none"]
  /\ pair = NewPair
  /\ probe = NoProbe
  /\ manager = NewManager
  /\ env = NoEnv

Init == Constructed /\ observing = FALSE
\* the same adapter with a caller that keeps the results of its calls
InitObserving == Constructed /\ observing = TRUE


\* OpencodeServiceWrapper.initialize -> OpencodeService.initialize
Initialize(ok) ==
  /\ client' = IF ok THEN "client" ELSE client
  /\ UNCHANGED <<currentSessionId, abortController, wrapperSessionId, signaled, queries,
                 pendingCreate, pendingDelete, deleteResult, createResult, direct, jobs,
                 backendVars, cacheVars, extraVars>>

\* OpencodeServiceWrapper.setSessionId
SetSessionId(id) ==
  /\ wrapperSessionId' = id
  /\ currentSessionId' = id
  /\ UNCHANGED <<client, abortController, signaled, queries, pendingCreate, pendingDelete,
                 deleteResult, createResult, direct, jobs, backendVars, cacheVars, extraVars>>

\* resetSession that also has the server delete the session it unbinds
ResetSessionDeleting ==
  /\ wrapperSessionId' = NoSession
  /\ currentSessionId' = NoSession
  /\ remoteSessions' = remoteSessions \ {wrapperSessionId}
  /\ last' = Observe(Result("resetSession", "void", NoSession))
  /\ UNCHANGED <<client, abortController, signaled, queries, pendingCreate, pendingDelete,
                 deleteResult, createResult, direct, jobs, nextSessionId, abortRequests,
                 abortReplies, backendProviders, cacheVars, approvalCallback, pendingCall,
                 observing, factory, key, pair, probe, manager, env>>

\* OpencodeServiceWrapper.resetSession
ResetSession ==
  /\ wrapperSessionId' = NoSession
  /\ currentSessionId' = NoSession
  /\ last' = Observe(Result("resetSession", "void", NoSession))
  /\ UNCHANGED <<client, abortController, signaled, queries, pendingCreate, pendingDelete,
                 deleteResult, createResult, direct, jobs, backendVars, cacheVars,
                 approvalCallback, pendingCall, observing, factory, key, pair, probe, manager,
                 env>>

\* OpencodeServiceWrapper.closePersistentQuery: this.resetSession()
ClosePersistentQuery ==
  /\ wrapperSessionId' = NoSession
  /\ currentSessionId' = NoSession
  /\ last' = Observe(Result("closePersistentQuery", "void", NoSession))
  /\ UNCHANGED <<client, abortController, signaled, queries, pendingCreate, pendingDelete,
                 deleteResult, createResult, direct, jobs, backendVars, cacheVars,
                 approvalCallback, pendingCall, observing, factory, key, pair, probe, manager,
                 env>>

\* OpencodeServiceWrapper.createSession up to the await of session.create
CreateSessionStart ==
  /\ ~pendingCreate
  /\ pendingCreate' = (client # "null")
  /\ last' = IF client = "null" THEN Observe(Result("createSession", "null", NoSession)) ELSE last
  /\ UNCHANGED <<client, currentSessionId, abortController, wrapperSessionId, signaled, queries,
                 pendingDelete, deleteResult, createResult, direct, jobs, backendVars, cacheVars,
                 approvalCallback, pendingCall, observing, factory, key, pair, probe, manager,
                 env>>

\* a deleteSession that unbinds whatever session is bound once the delete succeeded
UnbindAny(bound, id, ok) == IF ok THEN NoSession ELSE bound

\* the bound session id after session.delete answered ok for id: service lines
\* 240-242, wrapper lines 254-256
Unbind(bound, id, ok) == IF ok /\ bound = id THEN NoSession ELSE bound

\* OpencodeServiceWrapper.deleteSession up to the await of session.delete
DeleteSessionStart(id) ==
  /\ pendingDelete = NoSession
  /\ pendingDelete' = IF client # "null" THEN id ELSE pendingDelete
  /\ last' = IF client = "null" THEN Observe(Result("deleteSession", "false", id)) ELSE last
  /\ UNCHANGED <<client, currentSessionId, abortController, wrapperSessionId, signaled, queries,
                 pendingCreate, deleteResult, createResult, direct, jobs, backendVars, cacheVars,
                 approvalCallback, pendingCall, observing, factory, key, pair, probe, manager,
                 env>>

\* OpencodeServiceWrapper.query: the call and the consumer's first next()
QueryStart(q) ==
  /\ queries[q].pc = "new"
  /\ IF q = 1 THEN TRUE ELSE queries[q - 1].pc # "new"
  /\ LET qr == IF wrapperSessionId # NoSession
                 THEN ServiceQuery(queries[q], client, wrapperSessionId, currentSessionId)
               ELSE IF client = "null" THEN AfterCreate(queries[q], NoSession, client,
                                                        wrapperSessionId, currentSessionId)
               ELSE [queries[q] EXCEPT !.pc = "creating"]
     IN /\ queries' = [queries EXCEPT ![q] = qr]
        /\ abortController' = ControllerAfter(qr, q)
  /\ UNCHANGED <<client, currentSessionId, wrapperSessionId, signaled, pendingCreate,
                 pendingDelete, deleteResult, createResult, direct, jobs, backendVars, cacheVars,
                 extraVars>>

\* session.prompt settles with resp, and the service runs to its next yield
PromptResolve(q, resp) ==
  /\ queries[q].pc = "prompting"
  /\ queries' = [queries EXCEPT ![q] = AfterPrompt(queries[q], resp)]
  /\ UNCHANGED <<serviceVars, wrapperSessionId, signaled, pendingCreate, pendingDelete,
                 deleteResult, createResult, direct, jobs, backendVars, cacheVars, extraVars>>

\* the consumer calls next() on a stream suspended at a yield
ConsumerNext(q) ==
  /\ queries[q].pc \in AtYield
  /\ queries' = [queries EXCEPT ![q] =
                   IF queries[q].pc = "part" THEN Continue(queries[q], queries[q].idx + 1)
                   ELSE [queries[q] EXCEPT !.pc = "drained"]]
  /\ abortController' = IF queries[q].pc = "part" THEN abortController
                        ELSE FinallyController(queries[q].pc)
  /\ UNCHANGED <<client, currentSessionId, cachedProviders, cachedModels, wrapperSessionId,
                 signaled, pendingCreate, pendingDelete, deleteResult, createResult, direct,
                 jobs, backendVars, calls, cleared, extraVars>>

\* the consumer stops iterating early: return() on a stream suspended at a yield
ConsumerReturn(q) ==
  /\ queries[q].pc \in AtYield
  /\ queries' = [queries EXCEPT ![q].pc = "stopped"]
  /\ abortController' = FinallyController(queries[q].pc)
  /\ UNCHANGED <<client, currentSessionId, wrapperSessionId, signaled, pendingCreate,
                 pendingDelete, deleteResult, createResult, direct, jobs, backendVars, cacheVars,
                 extraVars>>

\* OpencodeServiceWrapper.abort (and cancel) -> OpencodeService.abort
Abort ==
  /\ signaled' = SignaledAfterAbort
  /\ abortRequests' = RequestsAfterAbort
  /\ abortReplies' = RepliesAfterAbort
  /\ queries' = [q \in Queries |-> SawAbort(queries[q])]
  /\ UNCHANGED <<client, currentSessionId, abortController, wrapperSessionId, pendingCreate,
                 pendingDelete, deleteResult, createResult, direct, jobs, remoteSessions,
                 nextSessionId, cacheVars, extraVars>>

\* OpencodeServiceWrapper.cleanup -> OpencodeService.cleanup
Cleanup ==
  /\ signaled' = SignaledAfterAbort
  /\ abortRequests' = RequestsAfterAbort
  /\ abortReplies' = RepliesAfterAbort
  /\ queries' = [q \in Queries |-> SawAbort(queries[q])]
  /\ client' = "null"
  /\ currentSessionId' = NoSession
  /\ wrapperSessionId' = NoSession
  /\ approvalCallback' = "null"
  /\ last' = Observe(Result("cleanup", "void", NoSession))
  /\ UNCHANGED <<abortController, pendingCreate, pendingDelete, deleteResult, createResult,
                 direct, jobs, remoteSessions, nextSessionId, cacheVars, pendingCall, observing,
                 factory, key, pair, probe, manager, env>>

\* OpencodeService.clearCache
ClearCache ==
  /\ cachedProviders' = <<>>
  /\ cachedModels' = <<>>
  /\ cleared' = TRUE
  /\ UNCHANGED <<client, currentSessionId, abortController, wrapperSessionId, signaled, queries,
                 pendingCreate, pendingDelete, deleteResult, createResult, direct, jobs,
                 backendVars, calls, extraVars>>

\* the server's configuration changes
BackendChange(list) ==
  /\ backendProviders # list
  /\ backendProviders' = list
  /\ UNCHANGED <<serviceVars, wrapperSessionId, signaled, queries, pendingCreate, pendingDelete,
                 deleteResult, createResult, direct, jobs, remoteSessions, nextSessionId,
                 abortRequests, abortReplies, calls, cleared, extraVars>>

\* a new call takes the first slot that holds no call in flight
FreeSlot(c) == /\ calls[c].pc \notin InFlight
               /\ \A d \in Calls : d < c => calls[d].pc \in InFlight

\* service lines 96-102: the list getProviders returns without a round trip, if any
ProvidersNow == IF cachedProviders # <<>> THEN cachedProviders
                ELSE IF client = "null" THEN << <<>> >>
                ELSE <<>>

\* OpencodeService.getProviders up to its return or to the await of config.providers
GetProvidersStart(c) ==
  /\ FreeSlot(c)
  /\ calls' = [calls EXCEPT ![c] = IF ProvidersNow # <<>> THEN Returned("providers", ProvidersNow[1])
                                   ELSE Fetching("providers")]
  /\ UNCHANGED <<serviceVars, wrapperSessionId, signaled, queries, pendingCreate, pendingDelete,
                 deleteResult, createResult, direct, jobs, backendVars, cleared, extraVars>>

\* OpencodeService.getModels up to its return (line 125) or to its await of
\* getProviders() (line 128), which has returned a list or awaits config.providers
GetModelsStart(c) ==
  /\ FreeSlot(c)
  /\ cleared' = FALSE
  /\ calls' = [calls EXCEPT ![c] =
       IF cachedModels # <<>> THEN Returned("models", cachedModels[1])
       ELSE IF ProvidersNow # <<>>
         THEN Flattening(ProvidersNow[1],
                         IF cachedProviders # <<>> THEN "cached" ELSE "notReady")
       ELSE Fetching("models")]
  /\ jobs' = IF cachedModels = <<>> /\ ProvidersNow # <<>> THEN Append(jobs, Job("models", c))
             ELSE jobs
  /\ UNCHANGED <<serviceVars, wrapperSessionId, signaled, queries, pendingCreate, pendingDelete,
                 deleteResult, createResult, direct, backendVars, extraVars>>

\* config.providers settles: getProviders lines 112-116, which returns the list
\* to its caller or to the await of getModels
FetchResolve(c, ok) ==
  /\ calls[c].pc = "fetching"
  /\ LET providers == IF ok THEN backendProviders ELSE <<>>
     IN /\ cachedProviders' = IF ok THEN <<providers>> ELSE cachedProviders
        /\ calls' = [calls EXCEPT ![c] =
             IF calls[c].kind = "models"
               THEN Flattening(providers, IF ok THEN "fetched" ELSE "rejected")
             ELSE Returned("providers", providers)]
  /\ jobs' = IF calls[c].kind = "models" THEN Append(jobs, Job("models", c)) ELSE jobs
  /\ UNCHANGED <<client, currentSessionId, abortController, cachedModels, wrapperSessionId,
                 signaled, queries, pendingCreate, pendingDelete, deleteResult, createResult,
                 direct, backendVars, cleared, extraVars>>

\* getModels resumes with the providers: lines 129-154
ModelsContinue(c) ==
  /\ Runs("models", c)
  /\ calls[c].pc = "flatten"
  /\ cachedModels' = << Flatten(calls[c].ret) >>
  /\ calls' = [calls EXCEPT ![c] = Returned("models", Flatten(calls[c].ret))]
  /\ jobs' = Tail(jobs)
  /\ UNCHANGED <<client, currentSessionId, abortController, cachedProviders, wrapperSessionId,
                 signaled, queries, pendingCreate, pendingDelete, deleteResult, createResult,
                 direct, backendVars, cleared, extraVars>>

\* the client's calls that read from the server and change no field
ReadOps == {"healthCheck", "getSession", "listSessions", "getMessages", "shareSession"}

\* every default is null
DefaultOfAllNull(op) == "null"

\* what a read returns when the client is null or the remote call fails
\* (service lines 72/80, 199/207, 216/224, 341/349, 358/366)
DefaultOf(op) ==
  CASE op = "healthCheck" -> "false"
    [] op \in {"listSessions", "getMessages"} -> "[]"
    [] OTHER -> "null"

\* what it returns when the remote call succeeds (health.data.healthy, result.data)
AnswerOf(op) == IF op = "healthCheck" THEN "true" ELSE "data"

\* healthCheck, getSession, listSessions, getMessages, shareSession up to their
\* return (client null) or to the await of the remote call
CallStart(op) ==
  /\ pendingCall = "none"
  /\ IF client = "null"
       THEN /\ last' = Observe(Result(op, DefaultOf(op), NoSession))
            /\ UNCHANGED pendingCall
       ELSE /\ pendingCall' = op
            /\ UNCHANGED last
  /\ UNCHANGED <<serviceVars, wrapperSessionId, signaled, queries, pendingCreate, pendingDelete,
                 deleteResult, createResult, direct, jobs, backendVars, calls, cleared,
                 approvalCallback, observing, factory, key, pair, probe, manager, env>>

\* the remote call of a read settles: the result, or the default of its catch
CallResolve(ok) ==
  /\ pendingCall # "none"
  /\ pendingCall' = "none"
  /\ last' = Observe(Result(pendingCall, IF ok THEN AnswerOf(pendingCall) ELSE DefaultOf(pendingCall),
                            NoSession))
  /\ UNCHANGED <<serviceVars, wrapperSessionId, signaled, queries, pendingCreate, pendingDelete,
                 deleteResult, createResult, direct, jobs, backendVars, calls, cleared,
                 approvalCallback, observing, factory, key, pair, probe, manager, env>>

\* OpencodeServiceWrapper.setApprovalCallback
SetApprovalCallback(cb) ==
  /\ approvalCallback' = cb
  /\ UNCHANGED <<serviceVars, wrapperSessionId, signaled, queries, pendingCreate, pendingDelete,
                 deleteResult, createResult, direct, jobs, backendVars, calls, cleared,
                 callerVars, factory, key, pair, probe, manager, env>>

\* ------------------------------------------------------- the compound key
\* The ids of providers and models are the strings of at most MaxIdLen
\* characters 'p', 'm' and ':'. A TLA+ string cannot be indexed, so a string is
\* read through the sequence of its characters.
KeyAlphabet == {"p", "m", ":"}
RECURSIVE Text(_)
\* the string whose characters are chars
Text(chars) == IF chars = <<>> THEN "" ELSE chars[1] \o Text(Tail(chars))
\* the character sequences of the ids, and of the values built from two ids
IdChars == SeqsUpTo(KeyAlphabet, MaxIdLen)
ValueChars == { p \o <<":">> \o m : p \in IdChars, m \in IdChars }
\* the ids a provider or a model can have
KeyIds == { Text(chars) : chars \in IdChars }
\* the characters of the string s
Chars(s) == CHOOSE chars \in IdChars \cup ValueChars : Text(chars) = s

RECURSIVE SplitChars(_)
\* split(':') on the characters: the piece before the first ':' and the pieces
\* of what follows it; a string without ':' is one piece
SplitChars(chars) ==
  IF \A i \in 1..Len(chars) : chars[i] # ":" THEN << chars >>
  ELSE LET i == CHOOSE j \in 1..Len(chars) : chars[j] = ":" /\ \A k \in 1..(j - 1) : chars[k] # ":"
       IN << SubSeq(chars, 1, i - 1) >> \o SplitChars(SubSeq(chars, i + 1, Len(chars)))
\* String.prototype.split(':')
Split(s) == LET pieces == SplitChars(Chars(s))
            IN [i \in 1..Len(pieces) |-> Text(pieces[i])]

\* the selector built from the whole option, without split(':')
ModelBodyWhole(model) == << [providerID |-> model, modelID |-> model] >>

\* service lines 285-291: modelBody, <<>> when it stays undefined
ModelBody(model) ==
  IF ~Truthy(model) THEN <<>>
  ELSE LET parts == Split(model)
           providerID == parts[1]
           modelID == IF Len(parts) >= 2 THEN parts[2] ELSE Undef
       IN IF Truthy(providerID) /\ Truthy(modelID)
            THEN << [providerID |-> providerID, modelID |-> modelID] >>
            ELSE <<>>

\* getModels lists the model of the provider (service lines 131-150)
KeyList(providerId, modelId) ==
  /\ key.pc = "none"
  /\ key' = [key EXCEPT !.pc = "listed", !.providerId = providerId, !.modelId = modelId,
                        !.entry = << ModelEntry(Provider(providerId, <<>>),
                                                Model(modelId, Undef, Undef)) >>]
  /\ UNCHANGED <<adapterVars, factory, pair, probe, manager, env>>

\* query() is given the listed value as its model option and builds the
\* selector of the prompt (service lines 285-297)
KeySubmit ==
  /\ key.pc = "listed"
  /\ key' = [key EXCEPT !.pc = "submitted", !.body = ModelBody(key.entry[1].value)]
  /\ UNCHANGED <<adapterVars, factory, pair, probe, manager, env>>

\* the model selector is used again for another model
KeyReset ==
  /\ key.pc = "submitted"
  /\ key' = NoKey
  /\ UNCHANGED <<adapterVars, factory, pair, probe, manager, env>>

\* ------------------------------------------------------ AgentServiceFactory
\* factory.service: 0 (null) or the installed instance; made: getBackendType() of
\* the instances create() returned, in order; cleaned: the instances cleanup()
\* ran on; result: what the last create() call did
Backends == {"opencode", "claude", "other"}
Created(backend, i) == [kind |-> "instance", backend |-> backend, instance |-> i]
Threw(backend) == [kind |-> "error", backend |-> backend, instance |-> 0]

\* wrapper lines 26-28
getBackendType == "opencode"

\* create that falls back to an instance for every backend
CreatesInstanceAlways(backend) == TRUE

\* IAgentService.ts line 214: config.backend === 'opencode'
CreatesInstance(backend) == backend = "opencode"

\* AgentServiceFactory.create
FactoryCreate(backend) ==
  /\ IF CreatesInstance(backend)
       THEN /\ Len(factory.made) < MaxInstances
            /\ factory' = [factory EXCEPT !.made = Append(@, getBackendType),
                                          !.result = Created(backend, Len(factory.made) + 1)]
       ELSE factory' = [factory EXCEPT !.result = Threw(backend)]
  /\ UNCHANGED <<adapterVars, key, pair, probe, manager, env>>

\* AgentServiceFactory.setService
FactorySetService(s) ==
  /\ s \in 0..Len(factory.made)
  /\ factory' = [factory EXCEPT !.service = s]
  /\ UNCHANGED <<adapterVars, key, pair, probe, manager, env>>

\* cleanup() of the instance i that create() returned
InstanceCleanup(i) ==
  /\ i \in 1..Len(factory.made)
  /\ factory' = [factory EXCEPT !.cleaned = @ \cup {i}]
  /\ UNCHANGED <<adapterVars, key, pair, probe, manager, env>>

\* abort() without the .catch of line 385: a rejected session.abort reaches the
\* stream that is waiting for its prompt
AbortSettleSurfacing(id, ok) ==
  /\ id \in abortRequests
  /\ abortReplies[id] = "none"
  /\ abortReplies' = [abortReplies EXCEPT ![id] = IF ok THEN "ok" ELSE "rejected"]
  /\ queries' = [q \in Queries |->
                   IF ~ok /\ queries[q].pc = "prompting"
                     THEN Emit(queries[q], RawChunk("error", "abort failed"), "errYield")
                     ELSE queries[q]]
  /\ UNCHANGED <<serviceVars, wrapperSessionId, signaled, pendingCreate, pendingDelete,
                 deleteResult, createResult, direct, jobs, remoteSessions, nextSessionId,
                 abortRequests, cacheVars, extraVars>>

\* the server answers the session.abort of service lines 381-385: resolved, or
\* rejected and swallowed by .catch(() => {})
AbortSettle(id, ok) ==
  /\ id \in abortRequests
  /\ abortReplies[id] = "none"
  /\ abortReplies' = [abortReplies EXCEPT ![id] = IF ok THEN "ok" ELSE "rejected"]
  /\ UNCHANGED <<serviceVars, wrapperSessionId, signaled, queries, pendingCreate, pendingDelete,
                 deleteResult, createResult, direct, jobs, remoteSessions, nextSessionId,
                 abortRequests, cacheVars, extraVars>>

\* wrapper lines 285-313 without closePersistentQuery: the operations kept for
\* compatibility with the other backend
CompatOps == {"consumeSessionInvalidation", "loadCCPermissions", "preWarm", "reloadMcpServers",
              "restartPersistentQuery"}

\* restartPersistentQuery doing what closePersistentQuery does
CompatCallRestarting(op) ==
  /\ op \in CompatOps
  /\ last' = Observe(Result(op, "void", NoSession))
  /\ wrapperSessionId' = IF op = "restartPersistentQuery" THEN NoSession ELSE wrapperSessionId
  /\ currentSessionId' = IF op = "restartPersistentQuery" THEN NoSession ELSE currentSessionId
  /\ UNCHANGED <<client, abortController, cachedProviders, cachedModels, signaled, queries,
                 pendingCreate, pendingDelete, deleteResult, createResult, direct, jobs,
                 backendVars, calls, cleared, approvalCallback, pendingCall, observing, factory,
                 key, pair, probe, manager, env>>

\* one of the five operations is called: its body is empty
CompatCall(op) ==
  /\ op \in CompatOps
  /\ last' = Observe(Result(op, "void", NoSession))
  /\ UNCHANGED <<serviceVars, wrapperSessionId, signaled, queries, pendingCreate, pendingDelete,
                 deleteResult, createResult, direct, jobs, backendVars, calls, cleared,
                 approvalCallback, pendingCall, observing, factory, key, pair, probe, manager,
                 env>>

\* ------------------------------------------------------------ two adapters
\* IAgentService.ts lines 216-217: create() gives each wrapper an OpencodeService
\* of its own
ServiceOfShared(i) == 1
ServiceOf(i) == i

\* OpencodeService.query called on the client itself, with options.sessionId =
\* optSid (NoSession: no sessionId in the options), and the consumer's first next()
ClientQueryStart(q, optSid) ==
  /\ queries[q].pc = "new"
  /\ LET qr == ServiceQuery([queries[q] EXCEPT !.viaWrapper = FALSE], client, optSid,
                             currentSessionId)
     IN /\ queries' = [queries EXCEPT ![q] = qr]
        /\ abortController' = ControllerAfter(qr, q)
  /\ UNCHANGED <<client, currentSessionId, wrapperSessionId, signaled, pendingCreate,
                 pendingDelete, deleteResult, createResult, direct, jobs, backendVars, cacheVars,
                 extraVars>>

\* ------------------------------------------------------- chunk conversion
\* the chunk types of OpencodeStreamChunk and two that convertChunk does not know
RawTypes == {"text", "thinking", "reasoning", "tool_use", "tool_result", "error", "usage",
             "session", "done", "step-start", ""}
RawChunks == [type : RawTypes, content : {Undef, "", "hi"}, error : {Undef, "boom"},
              result : {Undef, "r"}, sessionId : {Undef, "s1"}]

\* a raw chunk arrives at the wrapper (wrapper line 104)
ConvertPick(raw) ==
  /\ probe.pc # "raw"
  /\ probe' = [pc |-> "raw", raw |-> raw, out |-> NoProbe.out]
  /\ UNCHANGED <<adapterVars, factory, key, pair, manager, env>>

\* wrapper line 110: this.convertChunk(chunk)
Convert ==
  /\ probe.pc = "raw"
  /\ probe' = [probe EXCEPT !.pc = "converted", !.out = convertChunk(probe.raw)]
  /\ UNCHANGED <<adapterVars, factory, key, pair, manager, env>>

\* ------------------------------------ the continuations of the session operations
\* Each await is a suspension point: the code after an await runs in a later
\* job than the code that settled the awaited promise, and other jobs can run
\* in between. The continuations of settled promises run in the order in which
\* the promises settled (the job queue is first in, first out); when the server
\* answers and when the caller makes its next call is up to them.

\* wrapper lines 64-67 without the assignments: the id is returned and not bound
BindCreatedNever(bound, id) == bound

\* wrapper lines 64-67: a truthy id is bound, null leaves the binding alone
BindCreated(bound, id) == IF id # NoSession THEN id ELSE bound

\* session.create of a createSession() call on the adapter settles: service lines 188-192
CreateSettle(ok) ==
  /\ pendingCreate
  /\ createResult = <<>>
  /\ IF ok
       THEN /\ nextSessionId <= MaxSessions
            /\ remoteSessions' = remoteSessions \cup {nextSessionId}
            /\ nextSessionId' = nextSessionId + 1
            /\ currentSessionId' = nextSessionId
            /\ createResult' = << nextSessionId >>
       ELSE /\ createResult' = << NoSession >>
            /\ UNCHANGED <<remoteSessions, nextSessionId, currentSessionId>>
  /\ jobs' = Append(jobs, Job("createReturn", 0))
  /\ UNCHANGED <<client, abortController, wrapperSessionId, signaled, queries, pendingCreate,
                 pendingDelete, deleteResult, direct, abortRequests, abortReplies, cacheVars,
                 extraVars>>

\* the wrapper's createSession resumes with the id and returns it: wrapper lines 64-68
CreateReturn ==
  /\ Runs("createReturn", 0)
  /\ pendingCreate
  /\ createResult # <<>>
  /\ wrapperSessionId' = BindCreated(wrapperSessionId, createResult[1])
  /\ currentSessionId' = BindCreated(currentSessionId, createResult[1])
  /\ pendingCreate' = FALSE
  /\ createResult' = <<>>
  /\ last' = Observe(IF createResult[1] # NoSession
                       THEN Result("createSession", "id", createResult[1])
                       ELSE Result("createSession", "null", NoSession))
  /\ jobs' = Tail(jobs)
  /\ UNCHANGED <<client, abortController, signaled, queries, pendingDelete, deleteResult, direct,
                 backendVars, cacheVars, approvalCallback, pendingCall, observing, factory, key,
                 pair, probe, manager, env>>

\* the lazy session.create settles: service lines 188-192
LazyCreateSettle(q, ok) ==
  /\ queries[q].pc = "creating"
  /\ IF ok
       THEN /\ nextSessionId <= MaxSessions
            /\ remoteSessions' = remoteSessions \cup {nextSessionId}
            /\ nextSessionId' = nextSessionId + 1
            /\ currentSessionId' = nextSessionId
       ELSE UNCHANGED <<remoteSessions, nextSessionId, currentSessionId>>
  /\ queries' = [queries EXCEPT ![q].pc = "created",
                                ![q].created = IF ok THEN nextSessionId ELSE NoSession]
  /\ jobs' = Append(jobs, Job("bind", q))
  /\ UNCHANGED <<client, abortController, wrapperSessionId, signaled, pendingCreate,
                 pendingDelete, deleteResult, createResult, direct, abortRequests, abortReplies,
                 cacheVars, extraVars>>

\* the wrapper's createSession resumes with the id: wrapper lines 64-68
LazyCreateBind(q) ==
  /\ Runs("bind", q)
  /\ queries[q].pc = "created"
  /\ queries' = [queries EXCEPT ![q].pc = "bound"]
  /\ wrapperSessionId' = BindCreated(wrapperSessionId, queries[q].created)
  /\ currentSessionId' = BindCreated(currentSessionId, queries[q].created)
  /\ jobs' = Append(Tail(jobs), Job("continue", q))
  /\ UNCHANGED <<client, abortController, signaled, pendingCreate, pendingDelete, deleteResult,
                 createResult, direct, backendVars, cacheVars, extraVars>>

\* the wrapper's query resumes with the id: wrapper lines 96-109
LazyCreateContinue(q) ==
  /\ Runs("continue", q)
  /\ queries[q].pc = "bound"
  /\ LET qr == AfterCreate(queries[q], queries[q].created, client, wrapperSessionId,
                           currentSessionId)
     IN /\ queries' = [queries EXCEPT ![q] = qr]
        /\ abortController' = ControllerAfter(qr, q)
  /\ jobs' = Tail(jobs)
  /\ UNCHANGED <<client, currentSessionId, wrapperSessionId, signaled, pendingCreate,
                 pendingDelete, deleteResult, createResult, direct, backendVars, cacheVars,
                 extraVars>>

\* session.delete settles with data = ok: service lines 240-245
DeleteSettle(id, ok) ==
  /\ id = pendingDelete
  /\ deleteResult = "none"
  /\ deleteResult' = IF ok THEN "true" ELSE "false"
  /\ IF ok
       THEN /\ id \in remoteSessions
            /\ remoteSessions' = remoteSessions \ {id}
            /\ currentSessionId' = Unbind(currentSessionId, id, ok)
       ELSE UNCHANGED <<remoteSessions, currentSessionId>>
  /\ jobs' = Append(jobs, Job("deleteReturn", 0))
  /\ UNCHANGED <<client, abortController, wrapperSessionId, signaled, queries, pendingCreate,
                 pendingDelete, createResult, direct, nextSessionId, abortRequests, abortReplies,
                 cacheVars, extraVars>>

\* the wrapper's deleteSession resumes with the result: wrapper lines 254-257
DeleteReturn ==
  /\ Runs("deleteReturn", 0)
  /\ pendingDelete # NoSession
  /\ deleteResult # "none"
  /\ wrapperSessionId' = Unbind(wrapperSessionId, pendingDelete, deleteResult = "true")
  /\ pendingDelete' = NoSession
  /\ deleteResult' = "none"
  /\ last' = Observe(Result("deleteSession", deleteResult, pendingDelete))
  /\ jobs' = Tail(jobs)
  /\ UNCHANGED <<serviceVars, signaled, queries, pendingCreate, createResult, direct,
                 backendVars, calls, cleared, approvalCallback, pendingCall, observing, factory,
                 key, pair, probe, manager, env>>

\* OpencodeService.createSession called on the client itself, up to the await
\* of session.create (lines 168-185)
ServiceCreateStart ==
  /\ ~direct.create
  /\ client # "null"
  /\ direct' = [direct EXCEPT !.create = TRUE]
  /\ UNCHANGED <<serviceVars, wrapperSessionId, signaled, queries, pendingCreate, pendingDelete,
                 deleteResult, createResult, jobs, backendVars, calls, cleared, extraVars>>

\* its session.create settles (lines 188-192): only the client is bound
ServiceCreateSettle(ok) ==
  /\ direct.create
  /\ direct' = [direct EXCEPT !.create = FALSE]
  /\ IF ok
       THEN /\ nextSessionId <= MaxSessions
            /\ remoteSessions' = remoteSessions \cup {nextSessionId}
            /\ nextSessionId' = nextSessionId + 1
            /\ currentSessionId' = nextSessionId
       ELSE UNCHANGED <<remoteSessions, nextSessionId, currentSessionId>>
  /\ UNCHANGED <<client, abortController, wrapperSessionId, signaled, queries, pendingCreate,
                 pendingDelete, deleteResult, createResult, jobs, abortRequests, abortReplies,
                 cacheVars, extraVars>>

\* OpencodeService.deleteSession called on the client itself, up to the await
\* of session.delete (lines 232-239)
ServiceDeleteStart(id) ==
  /\ direct.delete = NoSession
  /\ client # "null"
  /\ direct' = [direct EXCEPT !.delete = id]
  /\ UNCHANGED <<serviceVars, wrapperSessionId, signaled, queries, pendingCreate, pendingDelete,
                 deleteResult, createResult, jobs, backendVars, calls, cleared, extraVars>>

\* its session.delete settles (lines 240-245): only the client is unbound
ServiceDeleteSettle(ok) ==
  /\ direct.delete # NoSession
  /\ direct' = [direct EXCEPT !.delete = NoSession]
  /\ IF ok
       THEN /\ direct.delete \in remoteSessions
            /\ remoteSessions' = remoteSessions \ {direct.delete}
            /\ currentSessionId' = Unbind(currentSessionId, direct.delete, ok)
       ELSE UNCHANGED <<remoteSessions, currentSessionId>>
  /\ UNCHANGED <<client, abortController, wrapperSessionId, signaled, queries, pendingCreate,
                 pendingDelete, deleteResult, createResult, jobs, nextSessionId, abortRequests,
                 abortReplies, cacheVars, extraVars>>

\* OpencodeService.setSessionId called on the client itself (lines 392-394):
\* the wrapper's id is not written
ServiceSetSessionId(id) ==
  /\ currentSessionId' = id
  /\ UNCHANGED <<client, abortController, wrapperSessionId, signaled, queries, pendingCreate,
                 pendingDelete, deleteResult, createResult, direct, jobs, backendVars, cacheVars,
                 extraVars>>

\* OpencodeService.cleanup called on the client itself (lines 406-410): abort(),
\* then the handle and the client's id are null; the wrapper's id and the
\* approval callback are not written
ServiceCleanup ==
  /\ signaled' = SignaledAfterAbort
  /\ abortRequests' = RequestsAfterAbort
  /\ abortReplies' = RepliesAfterAbort
  /\ queries' = [q \in Queries |-> SawAbort(queries[q])]
  /\ client' = "null"
  /\ currentSessionId' = NoSession
  /\ UNCHANGED <<abortController, wrapperSessionId, pendingCreate, pendingDelete, deleteResult,
                 createResult, direct, jobs, remoteSessions, nextSessionId, cacheVars,
                 extraVars>>

\* ------------------------------------- the operations of one of two adapters
\* Each adapter is a wrapper, the OpencodeService it owns and the asynchronous
\* call it has in flight; the caches are kept as "assigned or null".
\* what the operations of the two adapters leave alone
besidePair == <<client, currentSessionId, abortController, cachedProviders, cachedModels,
                wrapperSessionId, signaled, queries, pendingCreate, pendingDelete, deleteResult,
                createResult, direct, remoteSessions, nextSessionId, abortRequests, abortReplies,
                backendProviders, calls, cleared, approvalCallback, pendingCall, observing, last,
                factory, key, probe, manager, env>>

\* the wrapper, the service and the call of adapter i
PairWrapper(i) == pair.wrappers[i]
PairService(i) == pair.services[ServiceOf(i)]
PairPending(i) == pair.calls[i]
PairIdle(i) == pair.calls[i].op = "none"
PairAt(i, op, pc) == pair.calls[i].op = op /\ pair.calls[i].pc = pc
InCall(op, pc, id, ok) == [op |-> op, pc |-> pc, id |-> id, ok |-> ok]

\* adapter i is left with wrapper w, service s and call c
PairBecomes(i, w, s, c) ==
  pair' = [wrappers |-> [pair.wrappers EXCEPT ![i] = w],
           services |-> [pair.services EXCEPT ![ServiceOf(i)] = s],
           calls |-> [pair.calls EXCEPT ![i] = c]]

\* the operations without an await
PairOps == {"setSessionId", "resetSession", "clearCache", "abort", "cleanup"}

\* service lines 374-387 on the fields of one OpencodeService
AbortedService(s) == [s EXCEPT !.signaled = s.abortController \/ s.signaled]

\* the wrapper w and its service s after the operation op without an await; id
\* is the argument of setSessionId
PairAfter(op, id, w, s) ==
  CASE op = "setSessionId" ->
         [w |-> [w EXCEPT !.currentSessionId = id], s |-> [s EXCEPT !.currentSessionId = id]]
    [] op = "resetSession" ->
         [w |-> [w EXCEPT !.currentSessionId = NoSession],
          s |-> [s EXCEPT !.currentSessionId = NoSession]]
    [] op = "clearCache" ->
         [w |-> w, s |-> [s EXCEPT !.cachedProviders = FALSE, !.cachedModels = FALSE]]
    [] op = "abort" -> [w |-> w, s |-> AbortedService(s)]
    [] op = "cleanup" ->
         [w |-> [w EXCEPT !.currentSessionId = NoSession],
          s |-> [AbortedService(s) EXCEPT !.client = "null", !.currentSessionId = NoSession]]

\* adapter i performs op
PairCall(i, op, id) ==
  /\ LET after == PairAfter(op, id, PairWrapper(i), PairService(i))
     IN PairBecomes(i, after.w, after.s, PairPending(i))
  /\ UNCHANGED <<jobs, besidePair>>

\* initialize() of adapter i has completed (service lines 46-66): it reads no
\* field before its await and assigns the handle after it, unless the import or
\* createOpencodeClient threw
PairInitialize(i, ok) ==
  /\ PairBecomes(i, PairWrapper(i),
                 [PairService(i) EXCEPT !.client = IF ok THEN "client" ELSE @], PairPending(i))
  /\ UNCHANGED <<jobs, besidePair>>

\* createSession() of adapter i up to the await of session.create; without a
\* client it returns null
PairCreateStart(i) ==
  /\ PairIdle(i)
  /\ PairBecomes(i, PairWrapper(i), PairService(i),
                 IF PairService(i).client = "null" THEN PairPending(i)
                 ELSE InCall("create", "pending", NoSession, FALSE))
  /\ UNCHANGED <<jobs, besidePair>>

\* session.create settles, with id or with a rejection: service lines 188-192
PairCreateSettle(i, ok, id) ==
  /\ PairAt(i, "create", "pending")
  /\ PairBecomes(i, PairWrapper(i),
                 [PairService(i) EXCEPT !.currentSessionId = IF ok THEN id ELSE @],
                 InCall("create", "returning", IF ok THEN id ELSE NoSession, ok))
  /\ jobs' = Append(jobs, Job("pairCreateReturn", i))
  /\ UNCHANGED besidePair

\* the wrapper's createSession resumes: wrapper lines 64-68
PairCreateReturn(i) ==
  /\ Runs("pairCreateReturn", i)
  /\ PairBecomes(i,
       [PairWrapper(i) EXCEPT !.currentSessionId = BindCreated(@, PairPending(i).id)],
       [PairService(i) EXCEPT !.currentSessionId = BindCreated(@, PairPending(i).id)],
       NoPairCall)
  /\ jobs' = Tail(jobs)
  /\ UNCHANGED besidePair

\* deleteSession(id) of adapter i up to the await of session.delete; without a
\* client it returns false
PairDeleteStart(i, id) ==
  /\ PairIdle(i)
  /\ PairBecomes(i, PairWrapper(i), PairService(i),
                 IF PairService(i).client = "null" THEN PairPending(i)
                 ELSE InCall("delete", "pending", id, FALSE))
  /\ UNCHANGED <<jobs, besidePair>>

\* session.delete settles, with data ok or (ok false) with a rejection: service
\* lines 240-246
PairDeleteSettle(i, ok) ==
  /\ PairAt(i, "delete", "pending")
  /\ PairBecomes(i, PairWrapper(i),
                 [PairService(i) EXCEPT !.currentSessionId = Unbind(@, PairPending(i).id, ok)],
                 InCall("delete", "returning", PairPending(i).id, ok))
  /\ jobs' = Append(jobs, Job("pairDeleteReturn", i))
  /\ UNCHANGED besidePair

\* the wrapper's deleteSession resumes: wrapper lines 254-257
PairDeleteReturn(i) ==
  /\ Runs("pairDeleteReturn", i)
  /\ PairBecomes(i,
       [PairWrapper(i) EXCEPT
          !.currentSessionId = Unbind(@, PairPending(i).id, PairPending(i).ok)],
       PairService(i), NoPairCall)
  /\ jobs' = Tail(jobs)
  /\ UNCHANGED besidePair

\* getProviders() of adapter i up to its await (wrapper line 194, service lines
\* 95-111): with cached providers or without a client it returns and no field
\* is written; otherwise config.providers is in flight
PairProvidersStart(i) ==
  /\ PairIdle(i)
  /\ PairBecomes(i, PairWrapper(i), PairService(i),
                 IF PairService(i).cachedProviders \/ PairService(i).client = "null"
                   THEN PairPending(i)
                 ELSE InCall("providers", "fetching", NoSession, FALSE))
  /\ UNCHANGED <<jobs, besidePair>>

\* its config.providers settles (service lines 111-116): the list is cached
\* unless the request was rejected; the wrapper's continuation (lines 195-209)
\* writes no field
PairProvidersSettle(i, ok) ==
  /\ PairAt(i, "providers", "fetching")
  /\ PairBecomes(i, PairWrapper(i),
                 [PairService(i) EXCEPT !.cachedProviders = IF ok THEN TRUE ELSE @],
                 NoPairCall)
  /\ UNCHANGED <<jobs, besidePair>>

\* getModels() of adapter i up to its await: service lines 123-128 with
\* getProviders lines 95-111. With cachedModels it returns at once; with cached
\* providers or without a client getProviders has returned and getModels resumes
\* in a later job; otherwise config.providers is in flight
PairModelsStart(i) ==
  /\ PairIdle(i)
  /\ LET s == PairService(i)
         answered == s.cachedProviders \/ s.client = "null"
     IN /\ PairBecomes(i, PairWrapper(i), s,
                       IF s.cachedModels THEN PairPending(i)
                       ELSE IF answered THEN InCall("models", "flatten", NoSession, FALSE)
                       ELSE InCall("models", "fetching", NoSession, FALSE))
        /\ jobs' = IF ~s.cachedModels /\ answered THEN Append(jobs, Job("pairModels", i))
                   ELSE jobs
  /\ UNCHANGED besidePair

\* config.providers settles: service lines 112-116
PairFetchSettle(i, ok) ==
  /\ PairAt(i, "models", "fetching")
  /\ PairBecomes(i, PairWrapper(i),
                 [PairService(i) EXCEPT !.cachedProviders = IF ok THEN TRUE ELSE @],
                 InCall("models", "flatten", NoSession, ok))
  /\ jobs' = Append(jobs, Job("pairModels", i))
  /\ UNCHANGED besidePair

\* getModels resumes with the providers: service lines 129-154
PairModelsContinue(i) ==
  /\ Runs("pairModels", i)
  /\ PairBecomes(i, PairWrapper(i), [PairService(i) EXCEPT !.cachedModels = TRUE], NoPairCall)
  /\ jobs' = Tail(jobs)
  /\ UNCHANGED besidePair

\* OpencodeService.query is invoked with the wrapper's id as options.sessionId
\* (service lines 256-274): the service after it and where the stream stands
PairServiceQuery(w, s) ==
  IF s.client = "null" \/ ResolveSessionId(w.currentSessionId, s.currentSessionId) = NoSession
    THEN [s |-> s, pc |-> "failed"]
  ELSE [s |-> [s EXCEPT !.abortController = TRUE, !.signaled = FALSE], pc |-> "prompting"]

\* query() of adapter i and the consumer's first next(): wrapper lines 89-109
PairQueryStart(i) ==
  /\ PairIdle(i)
  /\ LET w == [PairWrapper(i) EXCEPT !.streaming = TRUE]
         s == PairService(i)
     IN IF w.currentSessionId # NoSession
          THEN PairBecomes(i, w, PairServiceQuery(w, s).s,
                           InCall("query", PairServiceQuery(w, s).pc, NoSession, FALSE))
        ELSE IF s.client = "null"
          THEN PairBecomes(i, w, s, InCall("query", "failed", NoSession, FALSE))
        ELSE PairBecomes(i, w, s, InCall("query", "creating", NoSession, FALSE))
  /\ UNCHANGED <<jobs, besidePair>>

\* the session.create of the query's lazy createSession settles: service lines
\* 188-192
PairLazySettle(i, ok, id) ==
  /\ PairAt(i, "query", "creating")
  /\ PairBecomes(i, PairWrapper(i),
                 [PairService(i) EXCEPT !.currentSessionId = IF ok THEN id ELSE @],
                 InCall("query", "created", IF ok THEN id ELSE NoSession, ok))
  /\ jobs' = Append(jobs, Job("pairBind", i))
  /\ UNCHANGED besidePair

\* the wrapper's createSession resumes inside query(): wrapper lines 64-68
PairLazyBind(i) ==
  /\ Runs("pairBind", i)
  /\ PairBecomes(i,
       [PairWrapper(i) EXCEPT !.currentSessionId = BindCreated(@, PairPending(i).id)],
       [PairService(i) EXCEPT !.currentSessionId = BindCreated(@, PairPending(i).id)],
       [PairPending(i) EXCEPT !.pc = "bound"])
  /\ jobs' = Append(Tail(jobs), Job("pairContinue", i))
  /\ UNCHANGED besidePair

\* query() resumes from its await of createSession(): wrapper lines 96-109
PairLazyContinue(i) ==
  /\ Runs("pairContinue", i)
  /\ LET w == PairWrapper(i)
         s == PairService(i)
     IN IF PairPending(i).id = NoSession
          THEN PairBecomes(i, w, s, InCall("query", "failed", NoSession, FALSE))
        ELSE PairBecomes(i, w, PairServiceQuery(w, s).s,
                         InCall("query", PairServiceQuery(w, s).pc, NoSession, FALSE))
  /\ jobs' = Tail(jobs)
  /\ UNCHANGED besidePair

\* session.prompt settles and the chunks are being delivered: service lines
\* 293-331
PairPromptSettle(i) ==
  /\ PairAt(i, "query", "prompting")
  /\ PairBecomes(i, PairWrapper(i), PairService(i), [PairPending(i) EXCEPT !.pc = "yielding"])
  /\ UNCHANGED <<jobs, besidePair>>

\* the stream of adapter i ends: after an early error chunk nothing is written,
\* otherwise the finally of service lines 332-334 empties the slot, and the
\* controller that was in it is gone
PairQueryEnd(i) ==
  /\ PairPending(i).op = "query"
  /\ PairPending(i).pc \in {"failed", "yielding"}
  /\ PairBecomes(i, [PairWrapper(i) EXCEPT !.streaming = FALSE],
                 [PairService(i) EXCEPT
                    !.abortController = IF PairPending(i).pc = "yielding" THEN FALSE ELSE @,
                    !.signaled = IF PairPending(i).pc = "yielding" THEN FALSE ELSE @],
                 NoPairCall)
  /\ UNCHANGED <<jobs, besidePair>>

\* the session of adapter i's conversation: the id it is given by setSessionId
\* and by the server for a session it creates
PairIds(i) == {i}

\* a step of adapter i
PairStep(i) ==
  \/ \E op \in PairOps, id \in PairIds(i) : PairCall(i, op, id)
  \/ \E ok \in BOOLEAN : PairInitialize(i, ok)
  \/ PairCreateStart(i)
  \/ \E ok \in BOOLEAN, id \in PairIds(i) : PairCreateSettle(i, ok, id)
  \/ PairCreateReturn(i)
  \/ \E id \in SessionIds : PairDeleteStart(i, id)
  \/ \E ok \in BOOLEAN : PairDeleteSettle(i, ok)
  \/ PairDeleteReturn(i)
  \/ PairProvidersStart(i)
  \/ \E ok \in BOOLEAN : PairProvidersSettle(i, ok)
  \/ PairModelsStart(i)
  \/ \E ok \in BOOLEAN : PairFetchSettle(i, ok)
  \/ PairModelsContinue(i)
  \/ PairQueryStart(i)
  \/ \E ok \in BOOLEAN, id \in PairIds(i) : PairLazySettle(i, ok, id)
  \/ PairLazyBind(i)
  \/ PairLazyContinue(i)
  \/ PairPromptSettle(i)
  \/ PairQueryEnd(i)

\* ------------------------------------------------- the server manager
\* "true" or "false" for a boolean
Flag(b) == IF b THEN "true" ELSE "false"

\* the constructor of OpencodeServerManager (part_000 lines 46-56): the config
\* it builds has hostname, port, corsOrigins, enableMdns and autoStart, and no
\* externalServer field, whatever the config passed in says
ManagerConstruct(ext) ==
  /\ manager.given = "none"
  /\ manager' = [manager EXCEPT !.given = Flag(ext), !.externalServer = Undef]
  /\ UNCHANGED <<adapterVars, factory, key, pair, probe, env>>

\* OpencodeServerManager.updateConfig({ externalServer: ext })
UpdateConfig(ext) ==
  /\ manager.given # "none"
  /\ manager' = [manager EXCEPT !.externalServer = Flag(ext)]
  /\ UNCHANGED <<adapterVars, factory, key, pair, probe, env>>

\* OpencodeServerManager.isRunning (lines 369-377): stop() drops the handle in
\* the same job in which it kills, so a handle the manager holds has
\* killed === false, whether its process runs or could not be started
isRunning == manager.process # NoProcess

\* a start() call returns
StartReturned(st, result, why) == [st EXCEPT !.pc = "returned", !.result = result, !.why = why]

\* start() up to its first await (lines 194-225): the isRunning() check, the
\* health check of the external mode, or writeConfigFile(), which writes with
\* fs.writeFileSync before the call suspends
StartCall(s) ==
  /\ manager.given # "none"
  /\ manager.starts[s].pc = "idle"
  /\ IF s = 1 THEN TRUE ELSE manager.starts[s - 1].pc # "idle"
  /\ manager' = [manager EXCEPT !.starts[s] =
       IF isRunning THEN StartReturned(@, "true", "running")
       ELSE IF manager.externalServer = "true" THEN [@ EXCEPT !.pc = "health"]
       ELSE [@ EXCEPT !.pc = "writing", !.wrote = TRUE]]
  /\ UNCHANGED <<adapterVars, factory, key, pair, probe, env>>

\* checkHealth() of the external mode settles (lines 203-210)
StartExternalSettle(s, running) ==
  /\ manager.starts[s].pc = "health"
  /\ manager' = [manager EXCEPT !.starts[s] = StartReturned(@, Flag(running), "external")]
  /\ UNCHANGED <<adapterVars, factory, key, pair, probe, env>>

\* what spawn() can do (line 271): throw (its arguments are rejected), return
\* the handle of a process that could not be started (EACCES, ENOENT: the
\* failure is reported later by the handle's 'error' event), or return the
\* handle of a running process
SpawnOutcomes == {"thrown", "failed", "started"}

\* start() resumes after writeConfigFile() (lines 227-311): the CLI check, then
\* spawn, which throws or hands back the handle kept in this.process, then the
\* first health check of the wait loop
StartSpawn(s, cli, outcome) ==
  /\ manager.starts[s].pc = "writing"
  /\ LET p == manager.spawns + 1
     IN manager' =
          IF ~cli THEN [manager EXCEPT !.starts[s] = StartReturned(@, "false", "cli")]
          ELSE IF outcome = "thrown"
            THEN [manager EXCEPT !.starts[s] = StartReturned(@, "false", "spawn")]
          ELSE [manager EXCEPT !.process = p, !.spawns = p,
                               !.alive = IF outcome = "started" THEN @ \cup {p} ELSE @,
                               !.failed = IF outcome = "failed" THEN @ \cup {p} ELSE @,
                               !.starts[s] = [@ EXCEPT !.pc = "polling", !.spawned = p]]
  /\ UNCHANGED <<adapterVars, factory, key, pair, probe, env>>

\* the 'error' event of a handle whose process could not be started (lines
\* 279-282): the handler logs and shows a Notice, and writes no field
SpawnError(p) ==
  /\ p \in manager.failed \ manager.reported
  /\ manager' = [manager EXCEPT !.reported = @ \cup {p}]
  /\ UNCHANGED <<adapterVars, factory, key, pair, probe, env>>

\* the wait loop whose clock stands still
NextPollsStuck(n) == n

\* the wait loop has slept once more
NextPolls(n) == n + 1

\* checkHealth() of the wait loop settles (lines 310-318)
StartPoll(s, running) ==
  /\ manager.starts[s].pc = "polling"
  /\ manager' = [manager EXCEPT !.starts[s] =
       IF running THEN StartReturned(@, "true", "healthy") ELSE [@ EXCEPT !.pc = "sleeping"]]
  /\ UNCHANGED <<adapterVars, factory, key, pair, probe, env>>

\* sleep(1000) settles and the loop condition is tested (lines 308 and 318-323):
\* each round takes a second, so after MaxWait rounds maxWait has passed
StartWake(s) ==
  /\ manager.starts[s].pc = "sleeping"
  /\ manager' = [manager EXCEPT !.starts[s] =
       IF NextPolls(@.polls) < MaxWait
         THEN [@ EXCEPT !.pc = "polling", !.polls = NextPolls(@)]
         ELSE StartReturned([@ EXCEPT !.polls = NextPolls(@)], "true", "timeout")]
  /\ UNCHANGED <<adapterVars, factory, key, pair, probe, env>>

\* OpencodeServerManager.stop (lines 334-363); it has no await. A handle
\* without a pid is dropped without a signal (line 341)
Stop ==
  /\ manager.given # "none"
  /\ manager' = IF manager.process = NoProcess THEN manager
                ELSE IF manager.process \in manager.failed
                  THEN [manager EXCEPT !.process = NoProcess]
                ELSE [manager EXCEPT !.signalled = @ \cup {manager.process},
                                     !.process = NoProcess]
  /\ UNCHANGED <<adapterVars, factory, key, pair, probe, env>>

\* process p exits and its 'exit' handler runs (lines 284-287)
ProcessExit(p) ==
  /\ p \in manager.alive
  /\ manager' = [manager EXCEPT !.alive = @ \ {p}, !.process = NoProcess]
  /\ UNCHANGED <<adapterVars, factory, key, pair, probe, env>>

\* ------------------------------------------- environment variable strings
\* A string is the sequence of its characters; a character that cannot be
\* written in a TLA+ string is named by its code point.
\* What String.prototype.trim() removes: the WhiteSpace and LineTerminator
\* characters of ECMAScript (TAB, VT, FF, SP, NBSP, ZWNBSP, the space separators
\* of Unicode, LF, CR, LS, PS)
Whitespace == {"\t", "U+000B", "\f", " ", "U+00A0", "U+FEFF",
               "U+1680", "U+2000", "U+2001", "U+2002", "U+2003", "U+2004", "U+2005",
               "U+2006", "U+2007", "U+2008", "U+2009", "U+200A", "U+202F", "U+205F",
               "U+3000", "\n", "\r", "U+2028", "U+2029"}

\* the lines the environment strings are made of
EnvLines == { <<"A", "=", "1">>, <<"A", "=", "2">>, <<"B", "=", "1">>,
              <<" ", "A", " ", "=", " ", "1", "=", " ">>,
              <<"\f", "B", "=", "U+00A0", "2", "\r">>,
              <<"#", "A", "=", "1">>, <<"=", "1">>, <<>> }

RECURSIVE JoinLines(_)
\* lines.join('\n')
JoinLines(lines) ==
  IF lines = <<>> THEN <<>>
  ELSE IF Len(lines) = 1 THEN lines[1]
  ELSE lines[1] \o <<"\n">> \o JoinLines(Tail(lines))

\* the strings of at most MaxLines lines
EnvStrings == { JoinLines(ls) : ls \in UNION { [1..n -> EnvLines] : n \in 0..MaxLines } }

RECURSIVE SplitLines(_)
\* s.split('\n'): the empty string gives one empty line
SplitLines(s) ==
  IF \A i \in 1..Len(s) : s[i] # "\n" THEN << s >>
  ELSE LET i == CHOOSE j \in 1..Len(s) : s[j] = "\n" /\ \A k \in 1..(j - 1) : s[k] # "\n"
       IN << SubSeq(s, 1, i - 1) >> \o SplitLines(SubSeq(s, i + 1, Len(s)))

RECURSIVE TrimStart(_)
TrimStart(s) == IF s # <<>> /\ s[1] \in Whitespace THEN TrimStart(Tail(s)) ELSE s
RECURSIVE TrimEnd(_)
TrimEnd(s) ==
  IF s # <<>> /\ s[Len(s)] \in Whitespace THEN TrimEnd(SubSeq(s, 1, Len(s) - 1)) ELSE s
\* line.trim()
Trim(s) == TrimEnd(TrimStart(s))

\* trimmed.indexOf('='), counted from 0; -1 when there is none
IndexOfEq(s) ==
  IF \A i \in 1..Len(s) : s[i] # "=" THEN -1
  ELSE (CHOOSE j \in 1..Len(s) : s[j] = "=" /\ \A k \in 1..(j - 1) : s[k] # "=") - 1

\* envMap.set(key, value) that keeps the earlier entry of the key as well
MapSetAppend(m, k, v) == Append(m, [key |-> k, value |-> v])

\* envMap.set(key, value) on a Map kept as the sequence of its entries in
\* insertion order: a key already there keeps its place and takes the value
MapSet(m, k, v) ==
  IF \E i \in 1..Len(m) : m[i].key = k
    THEN [i \in 1..Len(m) |-> IF m[i].key = k THEN [key |-> k, value |-> v] ELSE m[i]]
    ELSE Append(m, [key |-> k, value |-> v])

\* the body of the two parse loops (lines 119-128 and 131-140) for one line
ParseLine(m, line) ==
  LET trimmed == Trim(line)
      eqIndex == IndexOfEq(trimmed)
  IN IF trimmed = <<>> THEN m
     ELSE IF trimmed[1] = "#" THEN m
     ELSE IF eqIndex > 0
       THEN MapSet(m, SubSeq(trimmed, 1, eqIndex), SubSeq(trimmed, eqIndex + 2, Len(trimmed)))
     ELSE m

RECURSIVE ParseLines(_, _)
ParseLines(m, lines) ==
  IF lines = <<>> THEN m ELSE ParseLines(ParseLine(m, Head(lines)), Tail(lines))

\* migrationConstants.ts lines 114-148
mergeEnvironmentVariables(existing, additional) ==
  LET envMap == ParseLines(ParseLines(<<>>, SplitLines(existing)), SplitLines(additional))
  IN JoinLines([i \in 1..Len(envMap) |-> envMap[i].key \o <<"=">> \o envMap[i].value])

\* two environment strings are chosen
MergePick ==
  /\ env.pc = "none"
  /\ \E existing \in EnvStrings, additional \in EnvStrings :
       env' = [NoEnv EXCEPT !.pc = "picked", !.existing = existing, !.additional = additional]
  /\ UNCHANGED <<adapterVars, factory, key, pair, probe, manager>>

\* mergeEnvironmentVariables(existing, additional)
Merge ==
  /\ env.pc = "picked"
  /\ env' = [env EXCEPT !.pc = "merged",
                        !.merged = mergeEnvironmentVariables(env.existing, env.additional)]
  /\ UNCHANGED <<adapterVars, factory, key, pair, probe, manager>>

\* the result merged with additional once more
MergeAgain ==
  /\ env.pc = "merged"
  /\ env' = [env EXCEPT !.pc = "again",
                        !.again = mergeEnvironmentVariables(env.merged, env.additional)]
  /\ UNCHANGED <<adapterVars, factory, key, pair, probe, manager>>

\* the adapter with overlapping query() calls, each drained by its consumer, on
\* one session set by the caller or on sessions made by the queries
Next ==
  \/ \E ok \in BOOLEAN : Initialize(ok)
  \/ \E id \in {NoSession, 1} : SetSessionId(id)
  \/ ResetSession
  \/ \E q \in Queries : QueryStart(q)
  \/ \E q \in Queries, ok \in BOOLEAN : LazyCreateSettle(q, ok)
  \/ \E q \in Queries : LazyCreateBind(q)
  \/ \E q \in Queries : LazyCreateContinue(q)
  \/ \E q \in Queries, resp \in BasicResponses : PromptResolve(q, resp)
  \/ \E q \in Queries : ConsumerNext(q)
  \/ Abort
  \/ Cleanup

Spec == Init /\ [][Next]_vars

\* one query() call among createSession, setSessionId, resetSession and cleanup
NextSession ==
  \/ \E ok \in BOOLEAN : Initialize(ok)
  \/ \E id \in SessionIds \cup {NoSession} : SetSessionId(id)
  \/ ResetSession
  \/ CreateSessionStart
  \/ \E ok \in BOOLEAN : CreateSettle(ok)
  \/ CreateReturn
  \/ QueryStart(1)
  \/ \E ok \in BOOLEAN : LazyCreateSettle(1, ok)
  \/ LazyCreateBind(1)
  \/ LazyCreateContinue(1)
  \/ \E resp \in BasicResponses : PromptResolve(1, resp)
  \/ ConsumerNext(1)
  \/ ConsumerReturn(1)
  \/ Cleanup

SpecSession == Init /\ [][NextSession]_vars

\* one query() call at a time, with every answer session.prompt can give, and
\* abort()
NextStream ==
  \/ \E ok \in BOOLEAN : Initialize(ok)
  \/ \E id \in SessionIds \cup {NoSession} : SetSessionId(id)
  \/ QueryStart(1)
  \/ \E ok \in BOOLEAN : LazyCreateSettle(1, ok)
  \/ LazyCreateBind(1)
  \/ LazyCreateContinue(1)
  \/ \E resp \in AllResponses : PromptResolve(1, resp)
  \/ ConsumerNext(1)
  \/ ConsumerReturn(1)
  \/ Abort

SpecStream == Init /\ [][NextStream]_vars

\* the capability cache among the operations that leave it alone
NextCache ==
  \/ \E ok \in BOOLEAN : Initialize(ok)
  \/ \E id \in SessionIds \cup {NoSession} : SetSessionId(id)
  \/ Cleanup
  \/ ClearCache
  \/ \E list \in ProviderLists : BackendChange(list)
  \/ \E c \in Calls : GetProvidersStart(c)
  \/ \E c \in Calls : GetModelsStart(c)
  \/ \E c \in Calls, ok \in BOOLEAN : FetchResolve(c, ok)
  \/ \E c \in Calls : ModelsContinue(c)

SpecCache == Init /\ [][NextCache]_vars

\* the adapter's direct calls, made by a caller that keeps their results
NextClient ==
  \/ \E ok \in BOOLEAN : Initialize(ok)
  \/ \E id \in SessionIds \cup {NoSession} : SetSessionId(id)
  \/ ResetSession
  \/ ClosePersistentQuery
  \/ CreateSessionStart
  \/ \E ok \in BOOLEAN : CreateSettle(ok)
  \/ CreateReturn
  \/ \E id \in SessionIds : DeleteSessionStart(id)
  \/ \E id \in SessionIds, ok \in BOOLEAN : DeleteSettle(id, ok)
  \/ DeleteReturn
  \/ \E op \in ReadOps : CallStart(op)
  \/ \E ok \in BOOLEAN : CallResolve(ok)
  \/ Abort
  \/ Cleanup

SpecClient == InitObserving /\ [][NextClient]_vars

\* the compound key from getModels to the prompt of query
NextKey ==
  \/ \E providerId \in KeyIds, modelId \in KeyIds : KeyList(providerId, modelId)
  \/ KeySubmit
  \/ KeyReset

SpecKey == Init /\ [][NextKey]_vars

\* the factory, its registry and the instances it made
NextFactory ==
  \/ \E backend \in Backends : FactoryCreate(backend)
  \/ \E s \in 0..MaxInstances : FactorySetService(s)
  \/ \E i \in 1..MaxInstances : InstanceCleanup(i)

SpecFactory == Init /\ [][NextFactory]_vars

\* a client that never becomes ready: initialize() was not called or returned false
NextNotReady ==
  \/ Initialize(FALSE)
  \/ \E id \in SessionIds \cup {NoSession} : SetSessionId(id)
  \/ CreateSessionStart
  \/ \E id \in SessionIds : DeleteSessionStart(id)
  \/ \E op \in ReadOps : CallStart(op)
  \/ \E c \in Calls : GetProvidersStart(c)
  \/ QueryStart(1)
  \/ ConsumerNext(1)
  \/ ConsumerReturn(1)

SpecNotReady == InitObserving /\ [][NextNotReady]_vars

\* one query, abort() and the server's answers to the abort notifications
NextAbort ==
  \/ \E ok \in BOOLEAN : Initialize(ok)
  \/ \E id \in SessionIds \cup {NoSession} : SetSessionId(id)
  \/ QueryStart(1)
  \/ \E ok \in BOOLEAN : LazyCreateSettle(1, ok)
  \/ LazyCreateBind(1)
  \/ LazyCreateContinue(1)
  \/ \E resp \in BasicResponses : PromptResolve(1, resp)
  \/ ConsumerNext(1)
  \/ Abort
  \/ \E id \in SessionIds, ok \in BOOLEAN : AbortSettle(id, ok)

SpecAbort == Init /\ [][NextAbort]_vars

\* one query, a metadata fetch and the compatibility operations, with a caller
\* that keeps the results
NextCompat ==
  \/ \E ok \in BOOLEAN : Initialize(ok)
  \/ \E id \in SessionIds \cup {NoSession} : SetSessionId(id)
  \/ \E cb \in {"null", "callback"} : SetApprovalCallback(cb)
  \/ QueryStart(1)
  \/ \E ok \in BOOLEAN : LazyCreateSettle(1, ok)
  \/ LazyCreateBind(1)
  \/ LazyCreateContinue(1)
  \/ \E resp \in BasicResponses : PromptResolve(1, resp)
  \/ ConsumerNext(1)
  \/ GetModelsStart(1)
  \/ \E ok \in BOOLEAN : FetchResolve(1, ok)
  \/ ModelsContinue(1)
  \/ ClosePersistentQuery
  \/ \E op \in CompatOps : CompatCall(op)

SpecCompat == InitObserving /\ [][NextCompat]_vars

\* two adapters made by AgentServiceFactory.create, each with one asynchronous
\* call in flight at a time and the session of its own conversation
NextPair == \E i \in 1..2 : PairStep(i)

SpecPair == Init /\ [][NextPair]_vars

\* the client called without the adapter: setSessionId, createSession,
\* deleteSession, cleanup and a query with or without a session id in its
\* options; one createSession or deleteSession call is in flight at a time
NextDirect ==
  \/ \E ok \in BOOLEAN : Initialize(ok)
  \/ \E id \in SessionIds \cup {NoSession} : ServiceSetSessionId(id)
  \/ ServiceCleanup
  \/ direct.delete = NoSession /\ ServiceCreateStart
  \/ \E ok \in BOOLEAN : ServiceCreateSettle(ok)
  \/ \E id \in SessionIds : ~direct.create /\ ServiceDeleteStart(id)
  \/ \E ok \in BOOLEAN : ServiceDeleteSettle(ok)
  \/ \E optSid \in SessionIds \cup {NoSession} : ClientQueryStart(1, optSid)
  \/ \E resp \in BasicResponses : PromptResolve(1, resp)
  \/ ConsumerNext(1)
  \/ ConsumerReturn(1)

SpecDirect == Init /\ [][NextDirect]_vars

\* the metadata operations alone, against a server whose providers change
NextModels ==
  \/ \E ok \in BOOLEAN : Initialize(ok)
  \/ ClearCache
  \/ \E list \in ProviderLists : BackendChange(list)
  \/ \E c \in Calls : GetProvidersStart(c)
  \/ \E c \in Calls : GetModelsStart(c)
  \/ \E c \in Calls, ok \in BOOLEAN : FetchResolve(c, ok)
  \/ \E c \in Calls : ModelsContinue(c)

SpecModels == Init /\ [][NextModels]_vars

\* convertChunk applied to every raw chunk
NextConvert ==
  \/ \E raw \in RawChunks : ConvertPick(raw)
  \/ Convert

SpecConvert == Init /\ [][NextConvert]_vars

\* two query() calls on an adapter without a session
NextRace ==
  \/ Initialize(TRUE)
  \/ \E q \in Queries : QueryStart(q)
  \/ \E q \in Queries, ok \in BOOLEAN : LazyCreateSettle(q, ok)
  \/ \E q \in Queries : LazyCreateBind(q)
  \/ \E q \in Queries : LazyCreateContinue(q)
  \/ \E q \in Queries, resp \in BasicResponses : PromptResolve(q, resp)
  \/ \E q \in Queries : ConsumerNext(q)

SpecRace == Init /\ [][NextRace]_vars

\* one query() call among deleteSession, setSessionId, resetSession and cleanup
NextTicks ==
  \/ \E ok \in BOOLEAN : Initialize(ok)
  \/ \E id \in SessionIds \cup {NoSession} : SetSessionId(id)
  \/ ResetSession
  \/ \E id \in SessionIds : DeleteSessionStart(id)
  \/ \E id \in SessionIds, ok \in BOOLEAN : DeleteSettle(id, ok)
  \/ DeleteReturn
  \/ QueryStart(1)
  \/ \E ok \in BOOLEAN : LazyCreateSettle(1, ok)
  \/ LazyCreateBind(1)
  \/ LazyCreateContinue(1)
  \/ \E resp \in BasicResponses : PromptResolve(1, resp)
  \/ ConsumerNext(1)
  \/ Cleanup

SpecTicks == Init /\ [][NextTicks]_vars

\* overlapping query() calls alone, on a bound session or on none, each drained
\* or stopped early by its consumer
NextOverlap ==
  \/ Initialize(TRUE)
  \/ SetSessionId(1)
  \/ \E q \in Queries : QueryStart(q)
  \/ \E q \in Queries, ok \in BOOLEAN : LazyCreateSettle(q, ok)
  \/ \E q \in Queries : LazyCreateBind(q)
  \/ \E q \in Queries : LazyCreateContinue(q)
  \/ \E q \in Queries, resp \in BasicResponses : PromptResolve(q, resp)
  \/ \E q \in Queries : ConsumerNext(q)
  \/ \E q \in Queries : ConsumerReturn(q)

SpecOverlap == Init /\ [][NextOverlap]_vars

\* the operations that bind and unbind a session (createSession, deleteSession,
\* setSessionId, resetSession, closePersistentQuery), with a caller that keeps
\* the value each call returned
NextDelete ==
  \/ \E ok \in BOOLEAN : Initialize(ok)
  \/ \E id \in SessionIds \cup {NoSession} : SetSessionId(id)
  \/ ResetSession
  \/ ClosePersistentQuery
  \/ CreateSessionStart
  \/ \E ok \in BOOLEAN : CreateSettle(ok)
  \/ CreateReturn
  \/ \E id \in SessionIds : DeleteSessionStart(id)
  \/ \E id \in SessionIds, ok \in BOOLEAN : DeleteSettle(id, ok)
  \/ DeleteReturn

SpecDelete == InitObserving /\ [][NextDelete]_vars

\* one server manager, its start() and stop() calls and its processes
NextManager ==
  \/ \E ext \in BOOLEAN : ManagerConstruct(ext)
  \/ \E ext \in BOOLEAN : UpdateConfig(ext)
  \/ \E s \in Starts : StartCall(s)
  \/ \E s \in Starts, running \in BOOLEAN : StartExternalSettle(s, running)
  \/ \E s \in Starts, cli \in BOOLEAN, outcome \in SpawnOutcomes : StartSpawn(s, cli, outcome)
  \/ \E p \in Starts : SpawnError(p)
  \/ \E s \in Starts, running \in BOOLEAN : StartPoll(s, running)
  \/ \E s \in Starts : StartWake(s)
  \/ Stop
  \/ \E p \in Starts : ProcessExit(p)

SpecManager == Init /\ [][NextManager]_vars

\* every await of a pending start() settles: checkHealth() has a two second
\* timeout, sleep() is a timer and writeConfigFile() writes synchronously
StartSettles(s) ==
  \/ \E running \in BOOLEAN : StartExternalSettle(s, running)
  \/ \E cli \in BOOLEAN, outcome \in SpawnOutcomes : StartSpawn(s, cli, outcome)
  \/ \E running \in BOOLEAN : StartPoll(s, running)
  \/ StartWake(s)

\* two start() calls on one manager, the second during or after the first,
\* and the stop() calls between them
NextStart ==
  \/ \E ext \in BOOLEAN : ManagerConstruct(ext)
  \/ \E ext \in BOOLEAN : UpdateConfig(ext)
  \/ \E s \in {1, 2} : StartCall(s)
  \/ \E s \in {1, 2}, running \in BOOLEAN : StartExternalSettle(s, running)
  \/ \E s \in {1, 2}, cli \in BOOLEAN, outcome \in SpawnOutcomes : StartSpawn(s, cli, outcome)
  \/ \E s \in {1, 2}, running \in BOOLEAN : StartPoll(s, running)
  \/ \E s \in {1, 2} : StartWake(s)
  \/ Stop

SpecManagerLive == Init /\ [][NextStart]_vars /\ \A s \in Starts : WF_vars(StartSettles(s))

\* mergeEnvironmentVariables applied to two strings and to its own result
NextMerge ==
  \/ MergePick
  \/ Merge
  \/ MergeAgain

SpecMerge == Init /\ [][NextMerge]_vars

\* ------------------------------------------------------------ the claims
Terminal(chunk) == chunk.type \in {"done", "error"}
Last(seq) == seq[Len(seq)]
\* inside the Backend Client's round trip, or delivering the parts of its answer
Streaming == {"prompting", "part"}

\* C1: at most one streaming query is outstanding on one adapter at any time: a
\* second query() before the first one's terminal chunk is rejected or queued, so
\* no two calls are inside the Backend Client's prompt round trip or part
\* delivery together.
C1_AtMostOneOutstandingQuery ==
  Cardinality({ q \in Queries : queries[q].pc \in Streaming }) <= 1

\* C2: every stream of the adapter's query() holds at most one terminal chunk
\* (done or error), nothing follows it, and a stream drained by its consumer
\* ends with one.
C2_ExactlyOneTerminalChunk ==
  \A q \in Queries :
    LET s == queries[q].stream
    IN /\ \A i \in 1..Len(s) : Terminal(s[i]) => i = Len(s)
       /\ queries[q].pc = "drained" => (Len(s) >= 1 /\ Terminal(Last(s)))

\* a drained stream of three chunks: thinking, text, done
C2_Witness ==
  /\ queries[1].pc = "drained"
  /\ Len(queries[1].stream) = 3
  /\ queries[1].stream[1].type = "thinking"

\* C3: once abort() was called while a query's prompt was pending or its parts
\* were being delivered, that query's cancellation token is signaled and its
\* stream gets no further text or thinking chunk.
C3_NoContentAfterAbort ==
  [][\A q \in Queries :
       queries[q].abortSeen = "stream" =>
         /\ q \in signaled
         /\ Len(queries'[q].stream) > Len(queries[q].stream) =>
              Last(queries'[q].stream).type \notin {"text", "thinking"}]_vars

\* C4: when the prompt round trip fails with an error whose message is m, the
\* stream the caller gets is the single terminal chunk {type: 'error', content: m}.
C4_ErrorChunkCarriesMessage ==
  \A q \in Queries :
    (queries[q].resp.kind = "reject" /\ queries[q].resp.thrown.isError) =>
      queries[q].stream = << Chunk("error", queries[q].resp.thrown.message) >>

\* C5: when query() finds no bound session and the lazy createSession() returns
\* null, the stream is exactly the one chunk {type: 'error', content: 'Failed to
\* create OpenCode session'}, OpencodeService.query is never invoked for it, and
\* the step that reports the failure leaves the adapter's bound session, the
\* client's bound session and the cancellation slot as they were (the slot empty).
C5_FailedCreateShortCircuits ==
  [][\A q \in Queries :
       queries'[q].lazy = "failed" =>
         /\ queries'[q].stream = << Chunk("error", "Failed to create OpenCode session") >>
         /\ ~queries'[q].invoked
         /\ queries[q].lazy # "failed" =>
              /\ wrapperSessionId' = wrapperSessionId
              /\ currentSessionId' = currentSessionId
              /\ abortController' = abortController
              /\ abortController = NoSession]_vars

\* the client was ready, session.create failed, and the stream was drained
C5_Witness ==
  /\ queries[1].lazy = "failed"
  /\ queries[1].pc = "drained"
  /\ client = "client"

\* C6: every call of OpencodeService.query by the wrapper carries a session id:
\* options.sessionId is not null, so line 261 resolves to it and never yields
\* 'No session ID provided', whatever resetSession, setSessionId(null),
\* deleteSession and cleanup did around the call.
C6_NeverQueriesWithoutSession ==
  \A q \in Queries :
    queries[q].invoked =>
      /\ queries[q].opt # NoSession
      /\ queries[q].sid \in {NoSession, queries[q].opt}
      /\ queries[q].pc \in InTry => queries[q].sid # NoSession
      /\ \A i \in 1..Len(queries[q].raw) : queries[q].raw[i].content # "No session ID provided"

\* a query whose lazily created session was deleted while its prompt was pending
C6_Witness ==
  /\ queries[1].lazy = "ok"
  /\ queries[1].pc = "prompting"
  /\ queries[1].created \notin remoteSessions
  /\ wrapperSessionId = NoSession

\* C7: for every list of parts, OpencodeService.query yields, in the order of the
\* parts, a thinking chunk for each 'reasoning' part with non-empty text and a
\* text chunk for each 'text' part with non-empty text, nothing for any other
\* part, and then exactly one done chunk.  [reasoning 't1', text 'answer'] gives
\* [thinking 't1', text 'answer', done] and [] gives [done].
Emits(part) == part.type \in {"reasoning", "text"} /\ part.text \notin {Undef, ""}
ExpectedChunks(parts) ==
  LET kept == SelectSeq(parts, Emits)
  IN [i \in 1..Len(kept) |->
        RawChunk(IF kept[i].type = "reasoning" THEN "thinking" ELSE "text", kept[i].text)]
WellFormed(resp) == resp.kind = "ok" /\ \A i \in 1..Len(resp.parts) : resp.parts[i] # NullPart
DoneChunk == RawChunk("done", Undef)
C7_NormalizerYieldsPartsThenDone ==
  \A q \in Queries :
    LET qr == queries[q]
        want == ExpectedChunks(qr.resp.parts) \o << DoneChunk >>
    IN WellFormed(qr.resp) =>
         /\ Len(qr.raw) <= Len(want)
         /\ \A i \in 1..Len(qr.raw) : qr.raw[i] = want[i]
         /\ qr.pc \in {"doneYield", "drained"} => qr.raw = want
         /\ (qr.pc = "drained" /\ qr.resp.parts = << Part("reasoning", "t1"), Part("text", "answer") >>)
              => qr.raw = << RawChunk("thinking", "t1"), RawChunk("text", "answer"), DoneChunk >>
         /\ (qr.pc = "drained" /\ qr.resp.parts = <<>>) => qr.raw = << DoneChunk >>

\* a drained answer with an ignored part between two yielded ones
C7_Witness ==
  /\ queries[1].pc = "drained"
  /\ queries[1].resp.kind = "ok"
  /\ queries[1].resp.parts = << Part("text", Undef), Part("text", "answer") >>
  /\ Len(queries[1].raw) = 2

\* C8: cancellation is not reported as a failure: a query that abort() (or
\* cancel()) was called on while its prompt was pending or its parts were being
\* delivered gets no chunk of type 'error'.
C8_CancellationIsNotAnError ==
  \A q \in Queries :
    queries[q].abortSeen = "stream" =>
      \A i \in 1..Len(queries[q].stream) : queries[q].stream[i].type # "error"

\* C9: abort() with no query outstanding changes nothing: not the adapter, not
\* the client, and nothing is asked of the backend.
NoneOutstanding == \A q \in Queries : queries[q].pc \notin Outstanding
C9_IdleAbortIsNoOp ==
  [][(Abort /\ NoneOutstanding) => UNCHANGED vars]_vars

\* C10: once getModels() has populated the cache with a list of models, the
\* cached list stays what it is until clearCache(), and every getModels() call
\* made meanwhile returns it without a provider fetch; the first getModels()
\* call after clearCache(), made with the client ready and the caches still
\* empty, performs a fetch.
Populated == cachedModels # <<>> /\ cachedModels # << <<>> >>
GetModelsReturned(c) ==
  /\ calls[c].pc \notin InFlight
  /\ calls'[c] # calls[c]
  /\ calls'[c].kind = "models"
C10_CacheNeverSilentlyRefreshed ==
  [][/\ Populated =>
          /\ cachedModels' \in {cachedModels, <<>>, << <<>> >>}
          /\ \A c \in Calls :
               (calls[c].got \in {"fetched", "rejected"} /\ ModelsContinue(c)) =>
                 cachedModels' = cachedModels
     /\ \A c \in Calls :
          (Populated /\ GetModelsReturned(c)) =>
            calls'[c] = Returned("models", cachedModels[1])
     /\ (cleared /\ ~cleared' /\ client # "null" /\ cachedProviders = <<>> /\ cachedModels = <<>>) =>
          \E c \in Calls : calls[c].pc \notin InFlight /\ calls'[c] = Fetching("models")]_vars

\* C11: a remote call that rejects never escapes and changes nothing: when
\* config.providers rejects, the getProviders() or getModels() call waiting for
\* it returns the empty list and leaves the client handle, the bound session and
\* both caches as they were.
C11_FailedCallChangesNothing ==
  [][\A c \in Calls :
       /\ FetchResolve(c, FALSE) =>
            /\ calls'[c].ret = <<>>
            /\ UNCHANGED <<client, currentSessionId, cachedProviders, cachedModels>>
       /\ (calls[c].got = "rejected" /\ ModelsContinue(c)) =>
            /\ calls'[c] = Returned("models", <<>>)
            /\ UNCHANGED <<client, currentSessionId, cachedProviders, cachedModels>>]_vars

\* C12: while the client is not ready every operation behaves as not-ready:
\* healthCheck() gives false, createSession() null, deleteSession() false,
\* listSessions(), getMessages() and getProviders() the empty list, query() a
\* stream of one error chunk, and no request is sent to the server.
ContactsBackend ==
  \/ pendingCreate
  \/ pendingDelete # NoSession
  \/ pendingCall # "none"
  \/ \E c \in Calls : calls[c].pc = "fetching"
  \/ \E q \in Queries : queries[q].pc \in {"creating", "prompting"}
  \/ abortRequests # {}
  \/ remoteSessions # {}
NotReadyValue(op) ==
  CASE op \in {"healthCheck", "deleteSession"} -> "false"
    [] op = "createSession" -> "null"
    [] op \in {"listSessions", "getMessages"} -> "[]"
    [] OTHER -> last.val
C12_NotReadyNeverRaisesNorCalls ==
  client = "null" =>
    /\ last.val = NotReadyValue(last.op)
    /\ \A c \in Calls : calls[c].pc = "done" => calls[c].ret = <<>>
    /\ \A q \in Queries :
         queries[q].pc # "new" =>
           /\ Len(queries[q].stream) = 1
           /\ queries[q].stream[1].type = "error"
    /\ ~ContactsBackend

\* a client never initialized that was asked for its health and for its
\* providers and whose query() stream was drained
C12_Witness ==
  /\ client = "null"
  /\ last = Result("healthCheck", "false", NoSession)
  /\ calls[1] = Returned("providers", <<>>)
  /\ queries[1].pc = "drained"

\* C13: Closed is terminal: once cleanup() was the adapter's last call, no later
\* call makes the client ready again or binds a session.
C13_ClosedIsTerminal ==
  [][last.op = "cleanup" =>
       /\ client' = "null"
       /\ wrapperSessionId' = NoSession
       /\ currentSessionId' = NoSession]_vars

\* C14: when cleanup() returns the client handle is null, the bound session of
\* adapter and client is null, the approval callback is null, and the
\* cancellation token of every query that was awaiting its prompt or delivering
\* its parts has been signaled.
C14_CleanupAbortsAndReleases ==
  [][Cleanup =>
       /\ client' = "null"
       /\ wrapperSessionId' = NoSession
       /\ currentSessionId' = NoSession
       /\ approvalCallback' = "null"
       /\ \A q \in Queries : queries[q].pc \in Streaming => q \in signaled']_vars

\* C15: whenever the instance held by AgentServiceFactory is replaced (by another
\* instance or by null), cleanup() has run on the instance being replaced.
C15_ReplacedInstanceWasCleaned ==
  [][(factory.service # 0 /\ factory'.service # factory.service) =>
       factory.service \in factory'.cleaned]_vars

\* C16: create() for a backend other than 'opencode' raises an error, returns no
\* instance and leaves the installed instance as it was; for 'opencode' it
\* returns a new adapter whose getBackendType() is 'opencode' and does not
\* install it.
C16_CreateFailsFastForOtherBackends ==
  [][factory'.result # factory.result =>
       /\ factory'.service = factory.service
       /\ factory'.cleaned = factory.cleaned
       /\ IF factory'.result.backend = "opencode"
            THEN /\ factory'.result.kind = "instance"
                 /\ factory'.result.instance = Len(factory.made) + 1
                 /\ factory'.made = Append(factory.made, "opencode")
                 /\ factory'.service # factory'.result.instance
            ELSE /\ factory'.result.kind = "error"
                 /\ factory'.made = factory.made]_vars

\* create() for 'claude' threw while an instance made earlier was installed
C16_Witness ==
  /\ factory.result = Threw("claude")
  /\ factory.service = 1
  /\ Len(factory.made) = 2

\* C17: a session id is never reused after deletion: once deleteSession(id)
\* returned true, the adapter is not bound to id again.
\* The server numbers its sessions in order and only a successful delete removes
\* one, so the deleted sessions are the created ones it no longer holds; the
\* adapter may hold a deleted id only while the deleteSession call that deleted
\* it has not returned yet.
DeletedSessions == { id \in SessionIds : id < nextSessionId /\ id \notin remoteSessions }
C17_DeletedSessionNeverBound ==
  wrapperSessionId \in DeletedSessions => pendingDelete = wrapperSessionId

\* C18: createSession() returns the new session id and binds it in adapter and
\* client when session.create succeeds; when it fails (or the client is not
\* ready) it returns null and leaves the bound session id of both as it was.
\* Stated on the continuations of the call: the id session.create answered is
\* a session the server has just made; the return hands out that id with both
\* bound to it; a failed create changes nothing when it settles and nothing
\* when the call returns null.
C18_CreateSessionBindsOrLeaves ==
  [][/\ \A ok \in BOOLEAN : CreateSettle(ok) =>
          IF ok THEN createResult'[1] \in remoteSessions' \ remoteSessions
          ELSE /\ createResult' = << NoSession >>
               /\ UNCHANGED <<remoteSessions, wrapperSessionId, currentSessionId>>
     /\ CreateReturn =>
          IF createResult[1] # NoSession
            THEN /\ last' = Result("createSession", "id", createResult[1])
                 /\ wrapperSessionId' = createResult[1]
                 /\ currentSessionId' = createResult[1]
            ELSE /\ last' = Result("createSession", "null", NoSession)
                 /\ UNCHANGED <<remoteSessions, wrapperSessionId, currentSessionId>>
     /\ (client = "null" /\ CreateSessionStart) =>
          /\ last' = Result("createSession", "null", NoSession)
          /\ UNCHANGED <<remoteSessions, wrapperSessionId, currentSessionId>>]_vars

\* a second session was created and bound while the first still exists
C18_Witness ==
  /\ last = Result("createSession", "id", 2)
  /\ wrapperSessionId = 2
  /\ currentSessionId = 2
  /\ remoteSessions = {1, 2}

\* C19: resetSession() and closePersistentQuery() clear the bound session id of
\* adapter and client and do nothing else: no request goes to the server, the
\* remote session still exists, and the client handle, the caches, the
\* cancellation slot and the calls in flight are unchanged.
C19_ResetOnlyUnbinds ==
  [][(last' # last /\ last'.op \in {"resetSession", "closePersistentQuery"}) =>
       /\ wrapperSessionId' = NoSession
       /\ currentSessionId' = NoSession
       /\ UNCHANGED <<client, abortController, cachedProviders, cachedModels, signaled, queries,
                      pendingCreate, pendingDelete, pendingCall, backendVars, calls,
                      approvalCallback>>]_vars

\* closePersistentQuery() unbound a session that the server still holds
C19_Witness ==
  /\ last.op = "closePersistentQuery"
  /\ wrapperSessionId = NoSession
  /\ currentSessionId = NoSession
  /\ client = "client"
  /\ remoteSessions = {1}
  /\ ~pendingCreate

\* C20: compound-key round trip: for every non-empty providerId and modelId
\* without a ':', a query whose model option is "<providerId>:<modelId>" submits
\* the selector {providerID: providerId, modelID: modelId}; when providerId or
\* modelId is the empty string the prompt is submitted without a model
\* selector; and the value of every getModels() entry is its provider, a ':'
\* and its modelId.
ColonFree(id) == \A i \in 1..Len(Chars(id)) : Chars(id)[i] # ":"
EntryValueIsKey ==
  key.pc \in {"listed", "submitted"} =>
    /\ key.entry[1].provider = key.providerId
    /\ key.entry[1].modelId = key.modelId
    /\ key.entry[1].value = key.entry[1].provider \o ":" \o key.entry[1].modelId
C20_CompoundKeyRoundTrip ==
  /\ EntryValueIsKey
  /\ (key.pc = "submitted" /\ ColonFree(key.providerId) /\ ColonFree(key.modelId)) =>
       key.body = IF key.providerId = "" \/ key.modelId = "" THEN <<>>
                  ELSE << [providerID |-> key.providerId, modelID |-> key.modelId] >>

\* the statement without the restriction to non-empty ids
C20_CompoundKeyRoundTripAnyId ==
  /\ EntryValueIsKey
  /\ (key.pc = "submitted" /\ ColonFree(key.providerId) /\ ColonFree(key.modelId)) =>
       key.body = << [providerID |-> key.providerId, modelID |-> key.modelId] >>

\* the model "m" of provider "p" was listed as "p:m" and submitted as {p, m}
C20_Witness ==
  /\ key.pc = "submitted"
  /\ key.entry[1].value = "p:m"
  /\ key.body = << [providerID |-> "p", modelID |-> "m"] >>

\* C21: the answer to the abort notification changes nothing in the adapter.
\* Whether session.abort resolves or rejects, the step in which the answer
\* arrives leaves the client, the bound sessions, the cancellation slot, the
\* signalled tokens, every stream (so no error chunk is added) and every
\* pending call as they were; abort() itself has returned before.
AbortAnswered(id) == abortReplies[id] = "none" /\ abortReplies'[id] # "none"
C21_AbortFailureIsSwallowed ==
  [][\A id \in SessionIds :
       AbortAnswered(id) =>
         UNCHANGED <<serviceVars, wrapperSessionId, signaled, queries, pendingCreate,
                     pendingDelete, abortRequests, cacheVars, extraVars>>]_vars
\* the abort notification of an aborted query was rejected while its prompt
\* is still pending, and the stream holds no chunk
C21_Witness ==
  /\ queries[1].pc = "prompting"
  /\ queries[1].abortSeen = "stream"
  /\ queries[1].sid = 1
  /\ abortReplies[1] = "rejected"
  /\ queries[1].stream = <<>>

\* C22: loadCCPermissions, preWarm, restartPersistentQuery, reloadMcpServers and
\* consumeSessionInvalidation change nothing. A step in which one of them
\* returns to its caller leaves the bound sessions, the client handle, the
\* caches, the cancellation slot, the approval callback and every stream as
\* they were, and starts no request to the server: no session is created or
\* deleted, no abort notification is sent, no call or fetch is started.
CompatReturned == last' # last /\ last'.op \in CompatOps
C22_CompatOperationsAreNoOps ==
  [][CompatReturned =>
       UNCHANGED <<serviceVars, wrapperSessionId, signaled, queries, pendingCreate,
                   pendingDelete, deleteResult, createResult, direct, jobs, backendVars, calls,
                   cleared, approvalCallback, pendingCall>>]_vars
\* restartPersistentQuery returned while a prompt is pending on the bound
\* session, with the model cache populated
C22_Witness ==
  /\ last.op = "restartPersistentQuery"
  /\ queries[1].pc = "prompting"
  /\ wrapperSessionId = 1
  /\ abortController = 1
  /\ cachedModels # <<>>
  /\ Len(cachedModels[1]) > 0

\* C23: two adapters made by AgentServiceFactory.create do not share state.
\* Whatever step one of them takes (a call of initialize, setSessionId,
\* resetSession, clearCache, abort or cleanup; the call, the server's answer or
\* a continuation of createSession, deleteSession, getModels or query; the end
\* of its stream), the other wrapper's bound session and stream, the other
\* client's handle, bound session, cancellation slot, signalled token and
\* caches, and the other's call in flight are the same after the step as before.
ActsOn(i) ==
  \/ pair'.wrappers[i] # pair.wrappers[i]
  \/ pair'.services[ServiceOf(i)] # pair.services[ServiceOf(i)]
  \/ pair'.calls[i] # pair.calls[i]
OtherUnchanged(i) ==
  /\ pair'.wrappers[3 - i] = pair.wrappers[3 - i]
  /\ pair'.services[ServiceOf(3 - i)] = pair.services[ServiceOf(3 - i)]
  /\ pair'.calls[3 - i] = pair.calls[3 - i]
C23_AdaptersAreIndependent ==
  [][\A i \in 1..2 : ActsOn(i) => OtherUnchanged(i)]_vars
\* the second adapter streams on session 2 with its cache populated and its
\* token not signalled, while the first, whose deleteSession was overtaken by a
\* setSessionId between its two continuations, is left with the client bound and
\* the wrapper unbound
C23_Witness ==
  /\ pair.services[1].client = "client"
  /\ pair.services[1].currentSessionId = 1
  /\ pair.wrappers[1].currentSessionId = NoSession
  /\ pair.calls[1] = NoPairCall
  /\ pair.calls[2].pc = "yielding"
  /\ pair.wrappers[2].streaming
  /\ pair.wrappers[2].currentSessionId = 2
  /\ pair.services[2].currentSessionId = 2
  /\ pair.services[2].abortController
  /\ ~pair.services[2].signaled
  /\ pair.services[2].cachedModels

\* C24: the prompt goes to options.sessionId when the options name a session,
\* otherwise to the session bound to the client when query() is called; and no
\* step of a query (its call, the answer to its prompt, the delivery of its
\* chunks, its early end) changes the session bound to the client or the
\* session its prompt was submitted to.
PromptSubmitted(q) == queries[q].pc = "new" /\ queries'[q].pc = "prompting"
\* a step of query q: it moves to another position or delivers a chunk
QueryStep(q) ==
  \/ queries'[q].pc # queries[q].pc
  \/ queries'[q].idx # queries[q].idx
  \/ queries'[q].stream # queries[q].stream
C24_PromptGoesToOptionElseBound ==
  [][\A q \in Queries :
       /\ PromptSubmitted(q) =>
            queries'[q].sid = IF queries'[q].opt # NoSession THEN queries'[q].opt
                              ELSE currentSessionId
       /\ QueryStep(q) => currentSessionId' = currentSessionId
       /\ queries[q].pc \in InTry => queries'[q].sid = queries[q].sid]_vars
\* a query naming session 2 ended with done on session 2 while session 1 is bound
C24_Witness ==
  /\ queries[1].pc = "drained"
  /\ queries[1].opt = 2
  /\ queries[1].sid = 2
  /\ currentSessionId = 1
  /\ Last(queries[1].stream).type = "done"
\* a query without a session id in its options went to the bound session
C24_WitnessBound ==
  /\ queries[1].pc = "prompting"
  /\ queries[1].opt = NoSession
  /\ queries[1].sid = 2
  /\ currentSessionId = 2

\* C25: a getModels() call that fetches (or flattens cached providers) returns
\* one entry for each model of each provider and nothing else, the entries of
\* a provider together and in the order of its models, the providers in their
\* order; and the reasoning flag of an entry is capabilities.reasoning when the
\* model has it, else its top-level reasoning when it has it, else false.
RECURSIVE ModelsBefore(_, _)
ModelsBefore(providers, i) ==
  IF i = 1 THEN 0 ELSE ModelsBefore(providers, i - 1) + Len(providers[i - 1].models)
ExpectedReasoning(model) ==
  IF model.capabilities # Undef THEN model.capabilities
  ELSE IF model.reasoning # Undef THEN model.reasoning
  ELSE "false"
IsModelList(list, providers) ==
  /\ Len(list) = ModelsBefore(providers, Len(providers) + 1)
  /\ \A i \in 1..Len(providers) : \A j \in 1..Len(providers[i].models) :
       LET entry == list[ModelsBefore(providers, i) + j]
           model == providers[i].models[j]
       IN /\ entry.provider = providers[i].id
          /\ entry.modelId = model.modelId
          /\ entry.value = providers[i].id \o ":" \o model.modelId
          /\ entry.reasoning = ExpectedReasoning(model)
C25_ModelListIsFlattenedProviders ==
  [][\A c \in Calls :
       /\ \A ok \in BOOLEAN :
            FetchResolve(c, ok) /\ calls[c].kind = "models" =>
              calls'[c].ret = IF ok THEN backendProviders ELSE <<>>
       /\ GetModelsStart(c) /\ calls'[c].pc = "flatten" => calls'[c].ret = ProvidersNow[1]
       /\ ModelsContinue(c) =>
            /\ IsModelList(calls'[c].ret, calls[c].ret)
            /\ calls'[c].pc = "done"]_vars
\* a call returned the three models of two providers, with the reasoning flag
\* taken from capabilities, from the top-level field and from the default
C25_Witness ==
  \E c \in Calls :
    /\ calls[c].pc = "done"
    /\ calls[c].kind = "models"
    /\ Len(calls[c].ret) = 3
    /\ calls[c].ret[1].modelId = "sonnet" /\ calls[c].ret[1].reasoning = "false"
    /\ calls[c].ret[2].modelId = "haiku" /\ calls[c].ret[2].reasoning = "true"
    /\ calls[c].ret[3].provider = "openai" /\ calls[c].ret[3].reasoning = "false"

\* C26: convertChunk is defined on every raw chunk and keeps terminality. A raw
\* 'done' becomes a 'done' chunk and a raw 'error' an 'error' chunk; a raw chunk
\* of any other type, known or not, becomes a chunk that is neither; and a raw
\* chunk of a type convertChunk does not know becomes a text chunk with empty
\* content.
KnownTypes == {"text", "thinking", "reasoning", "tool_use", "tool_result", "error", "usage",
               "session", "done"}
C26_ConversionKeepsTerminality ==
  /\ probe.pc = "raw" => ENABLED Convert
  /\ probe.pc = "converted" =>
       /\ probe.raw.type \in {"done", "error"} => probe.out.type = probe.raw.type
       /\ probe.raw.type \notin {"done", "error"} => ~Terminal(probe.out)
       /\ probe.raw.type \notin KnownTypes => probe.out = Chunk("text", "")
\* a chunk of a type convertChunk does not know, with content, has been converted
C26_Witness ==
  /\ probe.pc = "converted"
  /\ probe.raw.type = "step-start"
  /\ probe.raw.content = "hi"
  /\ probe.out = Chunk("text", "")
\* an error chunk without a message has been converted
C26_WitnessError ==
  /\ probe.pc = "converted"
  /\ probe.raw.type = "error"
  /\ probe.raw.error = Undef
  /\ probe.out = Chunk("error", "Unknown error")

\* C28: a query that created its session lazily sends its prompt to that
\* session. For every query() call whose lazy createSession() returned an id
\* and that went on to call OpencodeService.query, the session the prompt is
\* submitted to is the session that call created (so every session created by
\* a query receives that query's prompt), and once no lazy creation is under
\* way a session is bound to the wrapper and to the client, the same one.
LazilyCreated(q) == queries[q].lazy = "ok" /\ queries[q].invoked
CreatingLazily == {"creating", "created", "bound"}
C28_LazyQueryUsesItsOwnSession ==
  \A q \in Queries :
    LazilyCreated(q) =>
      /\ queries[q].sid = queries[q].created
      /\ (\A r \in Queries : queries[r].pc \notin CreatingLazily) =>
           /\ wrapperSessionId # NoSession
           /\ wrapperSessionId = currentSessionId

\* C27: the wrapper and the client agree on the bound session. Whenever no
\* operation of the adapter is suspended at an await (no createSession or
\* deleteSession under way, no query creating its session), the session id the
\* wrapper holds equals the session id the client holds.
NoOperationInProgress ==
  /\ ~pendingCreate
  /\ pendingDelete = NoSession
  /\ \A q \in Queries : queries[q].pc \notin CreatingLazily
C27_SessionPointersAgree ==
  NoOperationInProgress => wrapperSessionId = currentSessionId

\* C29: abort() notifies the server about the session of the query in flight.
\* When abort() is called while a query's prompt is pending or its chunks are
\* being delivered, it sends session.abort for the session that prompt was
\* submitted to and for no other session, whatever setSessionId, resetSession,
\* createSession and deleteSession did since the query started.
C29_RemoteAbortNamesQuerySession ==
  [][Abort =>
       \A q \in Queries :
         queries[q].pc \in Streaming =>
           /\ AbortTarget = queries[q].sid
           /\ abortRequests' \ abortRequests \subseteq {queries[q].sid}]_vars

\* C30: a pending prompt is always cancellable. Whenever the prompt round trip
\* of a query is pending, the client's abortController slot holds the
\* controller that query created at line 274, also when two queries on the
\* client overlap.
C30_SlotHoldsPendingQuerysToken ==
  \A q \in Queries : queries[q].pc = "prompting" => abortController = q

\* C31: the cancellation slot is empty once the streams have ended. When at
\* least one query's stream was drained to completion or stopped early by its
\* consumer and no query is in progress on the client (every other query is
\* not started, drained or stopped), the client's abortController is null.
NoQueryInProgress == \A q \in Queries : queries[q].pc \in {"new"} \cup Closed
C31_SlotReleasedWhenStreamEnds ==
  (NoQueryInProgress /\ \E q \in Queries : queries[q].pc \in Closed) =>
    abortController = NoSession
\* two overlapping queries that both reached their prompt: the first was
\* drained through its done chunk, the second stopped early at an error
C31_Witness ==
  /\ queries[1].pc = "drained"
  /\ queries[1].sid # NoSession
  /\ Last(queries[1].stream).type = "done"
  /\ queries[2].pc = "stopped"
  /\ queries[2].sid # NoSession
  /\ abortController = NoSession

\* C32: a failed capability fetch leaves the caches empty. A getProviders() or
\* getModels() call that returns the empty list because the client is not
\* ready or because config.providers rejected stores nothing in either cache,
\* so that the next call, made with a ready client, fetches from the server.
ReturnedNotReady(c) ==
  /\ client = "null"
  /\ cachedProviders = <<>>
  /\ cachedModels = <<>>
  /\ GetProvidersStart(c) \/ GetModelsStart(c)
ReturnedEmpty(c) ==
  /\ calls[c].got \in {"notReady", "rejected"}
  /\ ModelsContinue(c)
C32_FailedFetchNeverPopulatesCache ==
  [][\A c \in Calls :
       /\ (FetchResolve(c, FALSE) \/ ReturnedNotReady(c) \/ ReturnedEmpty(c)) =>
            /\ cachedProviders = <<>> => cachedProviders' = <<>>
            /\ cachedModels = <<>> => cachedModels' = <<>>
       /\ (client # "null" /\ cachedProviders = <<>> /\ cachedModels = <<>>) =>
            /\ GetProvidersStart(c) => calls'[c] = Fetching("providers")
            /\ GetModelsStart(c) => calls'[c] = Fetching("models")]_vars

\* C33: clearCache() is not undone by a fetch already in flight. While no
\* getModels() call has started since clearCache() returned, the fetch of a
\* getModels() call that settles began before the clear, so it must leave both
\* caches empty for the next call to fetch afresh; and whenever both caches
\* hold a list, the cached model list is the flattening of the cached provider
\* list.
CachesAgree ==
  (cachedProviders # <<>> /\ cachedModels # <<>>) => cachedModels[1] = Flatten(cachedProviders[1])
C33_ClearCacheNotUndone ==
  [][/\ \A c \in Calls :
          /\ (cleared /\ calls[c].kind = "models" /\ FetchResolve(c, TRUE)) =>
               cachedProviders' = <<>>
          /\ (cleared /\ calls[c].got # "notReady" /\ ModelsContinue(c)) =>
               cachedModels' = <<>>
     /\ CachesAgree']_vars
\* the same claim without its first half: the two caches agree
C33_CachesAgree == CachesAgree

\* C34: cleanup() is not undone by a createSession() that was already in
\* flight. A create is pending while the client is null only when cleanup() ran
\* after it started; when the session.create of such a call settles (the direct
\* call, or the lazy one inside query()) with both bound ids null, both stay null.
C34_CleanupNotUndone ==
  [][\A ok \in BOOLEAN :
       (/\ client = "null"
        /\ currentSessionId = NoSession
        /\ wrapperSessionId = NoSession
        /\ IF pendingCreate /\ CreateSettle(ok) THEN TRUE
           ELSE queries[1].pc = "creating" /\ LazyCreateSettle(1, ok))
       => (currentSessionId' = NoSession /\ wrapperSessionId' = NoSession)]_vars

\* C35: deleteSession(id) clears the bound session id of adapter and client
\* exactly when the backend answered that the delete succeeded and id is the
\* bound session; on a failed delete, a delete of another session or a missing
\* client both ids are unchanged; the value returned is the backend's flag,
\* false when the delete failed or no client exists.
\* Stated on the continuations of the call: the client compares when
\* session.delete settles, the adapter when its own call resumes with the flag.
C35_DeleteSessionEffect ==
  [][/\ \A id \in SessionIds, ok \in BOOLEAN :
          /\ DeleteSettle(id, ok) =>
               /\ currentSessionId' = IF ok /\ currentSessionId = id THEN NoSession
                                      ELSE currentSessionId
               /\ wrapperSessionId' = wrapperSessionId
               /\ deleteResult' = IF ok THEN "true" ELSE "false"
          /\ (client = "null" /\ DeleteSessionStart(id)) =>
               /\ UNCHANGED <<currentSessionId, wrapperSessionId>>
               /\ last' = Result("deleteSession", "false", id)
     /\ DeleteReturn =>
          /\ wrapperSessionId' = IF deleteResult = "true" /\ wrapperSessionId = pendingDelete
                                 THEN NoSession ELSE wrapperSessionId
          /\ currentSessionId' = currentSessionId
          /\ last' = Result("deleteSession", deleteResult, pendingDelete)]_vars

\* a successful delete of another session than the bound one has returned true
\* and left the binding alone
C35_Witness ==
  /\ last = Result("deleteSession", "true", last.id)
  /\ currentSessionId \in SessionIds
  /\ currentSessionId # last.id
  /\ wrapperSessionId = currentSessionId
  /\ pendingDelete = NoSession

\* C36: the manager never has more than one spawned process alive that it has
\* not stopped. Every process that is alive is the one the process handle
\* refers to or has been sent a termination signal by stop(); and a start()
\* that found a process running returned true without writing or spawning.
C36_OneLiveProcess ==
  /\ \A p \in manager.alive : p = manager.process \/ p \in manager.signalled
  /\ \A s \in Starts : manager.starts[s].why = "running" =>
       /\ manager.starts[s].result = "true"
       /\ manager.starts[s].spawned = NoProcess
       /\ ~manager.starts[s].wrote

\* C37: the late exit of a stopped process does not clear the handle of the
\* process spawned after it. When a process that stop() has signalled exits
\* while the handle refers to another process, the handle is left alone and
\* isRunning() stays true.
C37_LateExitKeepsHandle ==
  [][\A p \in Starts :
       (/\ p \in manager.signalled
        /\ manager.process # NoProcess
        /\ manager.process # p
        /\ ProcessExit(p))
       => (manager'.process = manager.process /\ isRunning')]_vars

\* C38: a manager constructed with externalServer = true, whose config was not
\* updated since, never writes the config file and never spawns a process in
\* start(), which returns what the health check of the external server said.
C38_ExternalNeverSpawns ==
  (manager.given = "true" /\ manager.externalServer # "false") =>
    \A s \in Starts :
      /\ ~manager.starts[s].wrote
      /\ manager.starts[s].spawned = NoProcess
      /\ manager.starts[s].pc = "returned" => manager.starts[s].why \in {"external", "running"}

\* C39: start() always terminates. A start() call that has begun returns; it
\* returns false only when the CLI is missing, the external server is
\* unreachable or spawn threw, and a call that got a handle from spawn and never
\* saw the server healthy returns true when the wait is over.
C39_StartTerminates ==
  /\ [](\A s \in Starts :
          /\ manager.starts[s].result = "false" =>
               manager.starts[s].why \in {"cli", "external", "spawn"}
          /\ manager.starts[s].why = "timeout" =>
               /\ manager.starts[s].result = "true"
               /\ manager.starts[s].spawned # NoProcess
               /\ manager.starts[s].polls = MaxWait)
  /\ \A s \in Starts :
       (manager.starts[s].pc \notin {"idle", "returned"}) ~> (manager.starts[s].pc = "returned")

\* a start() spawned a process that never reported healthy and returned true
\* when the wait was over
C39_Witness ==
  \E s \in Starts :
    /\ manager.starts[s].pc = "returned"
    /\ manager.starts[s].why = "timeout"
    /\ manager.starts[s].result = "true"

\* C40: mergeEnvironmentVariables(existing, additional) returns one KEY=VALUE
\* line per distinct key of the two inputs; a key that additional has carries
\* additional's last value, any other key existing's last value; and merging
\* the result with additional once more changes nothing.
\* a line that counts: not blank, not a comment, with a key before its "="
EnvValid(t) == t # <<>> /\ t[1] # "#" /\ IndexOfEq(t) > 0
EnvEntry(t, i) == [key |-> SubSeq(t, 1, IndexOfEq(t)),
                   value |-> SubSeq(t, IndexOfEq(t) + 2, Len(t)), at |-> i]
EnvEntries(s) ==
  LET lines == SplitLines(s)
  IN { EnvEntry(Trim(lines[i]), i) : i \in { j \in 1..Len(lines) : EnvValid(Trim(lines[j])) } }
EnvKeys(s) == { e.key : e \in EnvEntries(s) }
LastValue(s, k) ==
  LET es == { e \in EnvEntries(s) : e.key = k }
  IN (CHOOSE e \in es : \A f \in es : f.at <= e.at).value
Expected(existing, additional, k) ==
  IF k \in EnvKeys(additional) THEN LastValue(additional, k) ELSE LastValue(existing, k)
C40_MergeOneLinePerKey ==
  /\ env.pc \in {"merged", "again"} =>
       LET keys == EnvKeys(env.existing) \cup EnvKeys(env.additional)
           out == IF env.merged = <<>> THEN <<>> ELSE SplitLines(env.merged)
       IN /\ Len(out) = Cardinality(keys)
          /\ { out[i] : i \in 1..Len(out) } =
               { k \o <<"=">> \o Expected(env.existing, env.additional, k) : k \in keys }
  /\ env.pc = "again" => env.again = env.merged

\* a merge in which additional overrides a key of existing, existing has a key
\* of its own, and the second merge has run
C40_Witness ==
  /\ env.pc = "again"
  /\ \E k \in EnvKeys(env.existing) \cap EnvKeys(env.additional) :
       LastValue(env.existing, k) # LastValue(env.additional, k)
  /\ EnvKeys(env.existing) \ EnvKeys(env.additional) # {}
  /\ env.again = env.merged

====
